---- MODULE Spec2Model ----
(***************************************************************************)
(* Model of the infraconfig pipeline: the deployment-record normalizer     *)
(* (src/normalize-deployment.ts), component discovery                      *)
(* (bin/extract-config.ts, discoverComponent), the configuration           *)
(* validator (src/bin/validate-config.ts, validate) and the extraction of  *)
(* environment variables (bin/extract-config.ts, toEnvVarName,             *)
(* extractEnvVars, validateRequiredParams, extractConfig).                 *)
(*                                                                         *)
(* The program is a set of synchronous functions over one parsed JSON      *)
(* document.  Each function is an operator computed the way the code       *)
(* computes it; each specification below draws the function's inputs from  *)
(* a bounded set in Init and applies the function in one action.           *)
(***************************************************************************)
EXTENDS Integers, Sequences, FiniteSets, TLC

VARIABLES
    pc,          \* position of the invocation
    deployment,  \* the DeploymentRecord object handed to the normalizer
    normalized,  \* the record the normalizer returned
    config,      \* the configuration file: what fs/JSON.parse give for configPath
    options,     \* ExtractOptions: the caller's componentId / systemId
    env,         \* process.env: the four selector variables
    result       \* what validate / discoverComponent returned or threw

vars == <<pc, deployment, normalized, config, options, env, result>>

(***************************************************************************)
(* Bounds of the explored inputs.                                          *)
(***************************************************************************)
\* most fields a deployment record holds
MaxFields == 3
\* most Systems in a document
MaxSystems == 2
\* most Components in a document, all Systems together
MaxComponents == 2
\* most selector hints (options and environment variables) set in one call
MaxHints == 3

(***************************************************************************)
(* JSON values.  A record field that is absent reads as undefined; a       *)
(* deployment record is a function from the names of its present fields.   *)
(***************************************************************************)
JStr(s) == [t |-> "string", s |-> s, n |-> 0]
JNum(n) == [t |-> "number", s |-> "", n |-> n]
JBool(b) == [t |-> "boolean", s |-> "", n |-> IF b THEN 1 ELSE 0]
JNull == [t |-> "null", s |-> "", n |-> 0]
Undefined == [t |-> "undefined", s |-> "", n |-> 0]

\* JavaScript property read: record[key]
Get(record, key) == IF key \in DOMAIN record THEN record[key] ELSE Undefined

\* JavaScript property write on a copy: record[key] = value
Put(record, key, value) ==
    [k \in DOMAIN record \cup {key} |-> IF k = key THEN value ELSE record[k]]

\* JavaScript truthiness, as in `if (!x)` and `a || b`
Truthy(v) ==
    \/ v.t = "string" /\ v.s # ""
    \/ v.t = "number" /\ v.n # 0
    \/ v.t = "boolean" /\ v.n = 1
    \/ v.t \in {"object", "array"}

NoRecord == [k \in {} |-> Undefined]

(***************************************************************************)
(* Normalizer: src/normalize-deployment.ts                                 *)
(***************************************************************************)
\* one `if (normalized.<legacy> !== undefined && normalized.<canonical> === undefined)`
CopyAlias(record, legacy, canonical) ==
    IF Get(record, legacy) # Undefined /\ Get(record, canonical) = Undefined
    THEN Put(record, canonical, record[legacy])
    ELSE record

\* the (legacy, canonical) pairs in the order the code applies them
AliasPairs ==
    << <<"dbLocalUrl", "localDatabaseUrl">>,
       <<"dbNetworkKey", "sharedDatabaseDeploymentKey">>,
       <<"repo", "githubRepo">>,
       <<"branch", "githubBranch">>,
       <<"commit", "githubCommit">> >>

LegacyNames == {AliasPairs[i][1] : i \in DOMAIN AliasPairs}
CanonicalNames == {AliasPairs[i][2] : i \in DOMAIN AliasPairs}

\* a slip in the first guard: it reads the second pair's canonical field
normalizeDeploymentConfig_slip(dep) ==
    LET n0 == dep
        n1 == CopyAlias(n0, "sharedDatabaseDeploymentKey", "localDatabaseUrl")
        n2 == CopyAlias(n1, "dbNetworkKey", "sharedDatabaseDeploymentKey")
        n3 == CopyAlias(n2, "repo", "githubRepo")
        n4 == CopyAlias(n3, "branch", "githubBranch")
        n5 == CopyAlias(n4, "commit", "githubCommit")
    IN  n5

\* the legacy value overwrites a canonical value that is already there
normalizeDeploymentConfig_legacyWins(dep) ==
    LET Over(r, legacy, canonical) ==
            IF Get(r, legacy) # Undefined THEN Put(r, canonical, r[legacy]) ELSE r
        n1 == Over(dep, "dbLocalUrl", "localDatabaseUrl")
        n2 == Over(n1, "dbNetworkKey", "sharedDatabaseDeploymentKey")
        n3 == Over(n2, "repo", "githubRepo")
        n4 == Over(n3, "branch", "githubBranch")
        n5 == Over(n4, "commit", "githubCommit")
    IN  n5

\* the returned record: a spread copy of the argument with the aliases applied
normalizeDeploymentConfig(dep) ==
    LET n0 == dep
        n1 == CopyAlias(n0, "dbLocalUrl", "localDatabaseUrl")
        n2 == CopyAlias(n1, "dbNetworkKey", "sharedDatabaseDeploymentKey")
        n3 == CopyAlias(n2, "repo", "githubRepo")
        n4 == CopyAlias(n3, "branch", "githubBranch")
        n5 == CopyAlias(n4, "commit", "githubCommit")
    IN  n5

\* without the spread the aliases are written into the caller's object
ArgumentAfterNormalize_aliased(dep) == normalizeDeploymentConfig(dep)

\* the argument object after the call: line 4 copies it, so it is not written
ArgumentAfterNormalize(dep) == dep

(***************************************************************************)
(* Inputs of the normalizer                                                *)
(***************************************************************************)
NormFields == LegacyNames \cup CanonicalNames \cup {"port"}
NormValues == {JNull, JStr("a"), JStr("b")}

RecordsOver(fields, values, most) ==
    UNION {[S -> values] : S \in {T \in SUBSET fields : Cardinality(T) <= most}}

NoConfig == [kind |-> "none"]
NoOptions == [componentId |-> "", systemId |-> ""]
NoEnv == [COMPONENT_ID |-> "", TARGET_COMPONENT_ID |-> "", SYSTEM_ID |-> "", TARGET_SYSTEM_ID |-> ""]
NoResult == [kind |-> "none"]

InitNormalize ==
    /\ pc = "start"
    /\ deployment \in RecordsOver(NormFields, NormValues, MaxFields)
    /\ normalized = NoRecord
    /\ config = NoConfig
    /\ options = NoOptions
    /\ env = NoEnv
    /\ result = NoResult

\* normalizeDeploymentConfig(deployment)
Normalize ==
    /\ pc = "start"
    /\ pc' = "once"
    /\ normalized' = normalizeDeploymentConfig(deployment)
    /\ deployment' = ArgumentAfterNormalize(deployment)
    /\ UNCHANGED <<config, options, env, result>>

\* normalizeDeploymentConfig applied to its own result
NormalizeAgain ==
    /\ pc = "once"
    /\ pc' = "twice"
    /\ normalized' = normalizeDeploymentConfig(normalized)
    /\ UNCHANGED <<deployment, config, options, env, result>>

NextNormalize == Normalize \/ NormalizeAgain

SpecNormalize == InitNormalize /\ [][NextNormalize]_vars

(***************************************************************************)
(* C7: the normalizer is idempotent: normalizing an already normalized     *)
(* record gives the same record, field for field, as normalizing once.     *)
(***************************************************************************)
C7_Idempotent ==
    pc = "twice" => normalized = normalizeDeploymentConfig(deployment)

\* a second pass over a record in which an alias was copied
C7_Witness ==
    /\ pc = "twice"
    /\ "dbNetworkKey" \in DOMAIN deployment
    /\ "sharedDatabaseDeploymentKey" \notin DOMAIN deployment
    /\ normalized["sharedDatabaseDeploymentKey"] = deployment["dbNetworkKey"]

(***************************************************************************)
(* C8: the normalizer keeps every field of its input with the same value,  *)
(* adds no key other than the five canonical names, and leaves the record  *)
(* it was given as it was.                                                 *)
(***************************************************************************)
C8_Frame ==
    [][(pc = "start" /\ pc' = "once") =>
            /\ deployment' = deployment
            /\ DOMAIN deployment \subseteq DOMAIN normalized'
            /\ \A k \in DOMAIN deployment : normalized'[k] = deployment[k]
            /\ (DOMAIN normalized') \ (DOMAIN deployment) \subseteq CanonicalNames]_vars

\* a call that synthesized a canonical field next to an unrelated one
C8_Witness ==
    /\ pc = "once"
    /\ "port" \in DOMAIN deployment
    /\ "repo" \in DOMAIN deployment
    /\ "githubRepo" \in DOMAIN normalized
    /\ "githubRepo" \notin DOMAIN deployment

(***************************************************************************)
(* C9: for each alias pair, a canonical field that is defined in the input *)
(* keeps its value (the legacy field stays too); a canonical field that is *)
(* undefined takes the legacy value when there is one; when both are       *)
(* undefined the canonical field stays absent.                             *)
(***************************************************************************)
C9_Precedence ==
    pc = "once" =>
        \A i \in DOMAIN AliasPairs :
            LET legacy == AliasPairs[i][1]
                canonical == AliasPairs[i][2]
            IN  /\ canonical \in DOMAIN deployment =>
                    /\ Get(normalized, canonical) = deployment[canonical]
                    /\ Get(normalized, legacy) = Get(deployment, legacy)
                /\ (canonical \notin DOMAIN deployment /\ legacy \in DOMAIN deployment) =>
                    Get(normalized, canonical) = deployment[legacy]
                /\ (canonical \notin DOMAIN deployment /\ legacy \notin DOMAIN deployment) =>
                    canonical \notin DOMAIN normalized

\* both names present with different values
C9_Witness ==
    /\ pc = "once"
    /\ Get(deployment, "branch") = JStr("a")
    /\ Get(deployment, "githubBranch") = JStr("b")
    /\ Get(normalized, "githubBranch") = JStr("b")
    /\ Get(deployment, "commit") = JStr("a")
    /\ Get(normalized, "githubCommit") = JStr("a")
(***************************************************************************)
(* The configuration document (dist/types.d.ts: InfraConfig, System,       *)
(* Component).  kind tells what reading and parsing the file gave:         *)
(* "absent" (no file), "malformed" (JSON.parse throws), "null" (the JSON   *)
(* literal null) or "object".  has* flags tell whether a property that     *)
(* holds an array or an object is there at all; a string property that is  *)
(* missing reads as "" (both are falsy).                                   *)
(***************************************************************************)
Component(id, type, enabled, hasDep, dep) ==
    [componentId |-> id, componentType |-> type, enabled |-> enabled,
     hasDeployment |-> hasDep, deployment |-> dep]

System(id, type, hasComps, comps) ==
    [systemId |-> id, systemType |-> type, hasComponents |-> hasComps, components |-> comps]

Document(schemaVersion, hasSystems, systems) ==
    [kind |-> "object", schemaVersion |-> schemaVersion,
     hasSystems |-> hasSystems, systems |-> systems]

RECURSIVE CountComponents(_)
\* number of Components of a sequence of Systems
CountComponents(systems) ==
    IF systems = <<>> THEN 0
    ELSE Len(Head(systems).components) + CountComponents(Tail(systems))

SeqsUpTo(S, n) == UNION {[1..k -> S] : k \in 0..n}

RECURSIVE Sum(_)
Sum(counts) == IF counts = <<>> THEN 0 ELSE Head(counts) + Sum(Tail(counts))

\* how many Components each System of a document holds: up to n Systems
\* holding up to `most` Components together
Shapes(n, most) == {shape \in SeqsUpTo(0..most, n) : Sum(shape) <= most}

\* the Components of the i-th System, cut out of the Components of the
\* document listed in document order
ComponentsOf(shape, comps, i) ==
    SubSeq(comps, Sum(SubSeq(shape, 1, i - 1)) + 1, Sum(SubSeq(shape, 1, i)))

(***************************************************************************)
(* Discovery: bin/extract-config.ts, discoverComponent                     *)
(***************************************************************************)
\* `a || b || c` over strings: the first that is not empty
Or3(a, b, c) == IF a # "" THEN a ELSE IF b # "" THEN b ELSE c

\* the environment before the explicit value
TargetComponentId_envFirst(o, e) == Or3(e.COMPONENT_ID, o.componentId, e.TARGET_COMPONENT_ID)

\* line 24: options.componentId || process.env.COMPONENT_ID || process.env.TARGET_COMPONENT_ID
TargetComponentId(o, e) == Or3(o.componentId, e.COMPONENT_ID, e.TARGET_COMPONENT_ID)
\* line 25: options.systemId || process.env.SYSTEM_ID || process.env.TARGET_SYSTEM_ID
TargetSystemId(o, e) == Or3(o.systemId, e.SYSTEM_ID, e.TARGET_SYSTEM_ID)

\* the last element that passes, not the first
Find_last(passes) ==
    IF \E i \in DOMAIN passes : passes[i]
    THEN CHOOSE i \in DOMAIN passes : passes[i] /\ \A j \in DOMAIN passes : passes[j] => j <= i
    ELSE 0

\* Array.prototype.find, given for each element whether the callback passes it:
\* the index of the first element that passes, 0 when find returns undefined
Find(passes) ==
    IF \E i \in DOMAIN passes : passes[i]
    THEN CHOOSE i \in DOMAIN passes : passes[i] /\ \A j \in 1..(i - 1) : ~passes[j]
    ELSE 0

\* a returned { component, systemId, systemType }; the component object is the
\* one at position ci of System si; note is what was logged on the way
Found(systems, si, ci, note) ==
    [kind |-> "ok", error |-> "", si |-> si, ci |-> ci,
     systemId |-> systems[si].systemId, systemType |-> systems[si].systemType,
     note |-> note]

\* a thrown Error, or the TypeError of a property read on undefined
Thrown(error) ==
    [kind |-> "error", error |-> error, si |-> 0, ci |-> 0,
     systemId |-> "", systemType |-> "", note |-> ""]

\* Strategy 2: the first System, in order, that holds the componentId
Strategy2(systems, targetComponentId) ==
    LET Match(c) == c.componentId = targetComponentId
        Stop(s) == ~s.hasComponents \/ Find([n \in DOMAIN s.components |-> Match(s.components[n])]) # 0
        si == Find([n \in DOMAIN systems |-> Stop(systems[n])])
    IN  IF si = 0 THEN Thrown("ComponentNotFound")
        ELSE IF ~systems[si].hasComponents THEN Thrown("TypeError")
        ELSE Found(systems, si, Find([n \in DOMAIN systems[si].components |-> Match(systems[si].components[n])]), "")

\* a miss inside the named System goes on to the scan of all Systems
Strategy1_fallsThrough(systems, targetSystemId, targetComponentId) ==
    LET SysMatch(s) == s.systemId = targetSystemId
        Match(c) == c.componentId = targetComponentId
        si == Find([n \in DOMAIN systems |-> SysMatch(systems[n])])
    IN  IF si = 0 THEN Thrown("SystemNotFound")
        ELSE IF ~systems[si].hasComponents THEN Thrown("TypeError")
        ELSE IF Find([n \in DOMAIN systems[si].components |-> Match(systems[si].components[n])]) = 0
             THEN Strategy2(systems, targetComponentId)
        ELSE Found(systems, si, Find([n \in DOMAIN systems[si].components |-> Match(systems[si].components[n])]), "")

\* Strategy 1: the System by id, then the Component by id inside it
Strategy1(systems, targetSystemId, targetComponentId) ==
    LET SysMatch(s) == s.systemId = targetSystemId
        Match(c) == c.componentId = targetComponentId
        si == Find([n \in DOMAIN systems |-> SysMatch(systems[n])])
    IN  IF si = 0 THEN Thrown("SystemNotFound")
        ELSE IF ~systems[si].hasComponents THEN Thrown("TypeError")
        ELSE IF Find([n \in DOMAIN systems[si].components |-> Match(systems[si].components[n])]) = 0 THEN Thrown("ComponentNotFound")
        ELSE Found(systems, si, Find([n \in DOMAIN systems[si].components |-> Match(systems[si].components[n])]), "")

\* Strategy 4: systems[0].components[0]; logging it reads component.componentId
Strategy4(systems) ==
    IF Len(systems[1].components) = 0 THEN Thrown("TypeError")
    ELSE Found(systems, 1, 1, "WARN")

\* the enabled flag is not looked at
Strategy3_ignoresEnabled(systems) ==
    LET Match(c) == c.componentType = "AGENT"
        Stop(s) == ~s.hasComponents \/ Find([n \in DOMAIN s.components |-> Match(s.components[n])]) # 0
        si == Find([n \in DOMAIN systems |-> Stop(systems[n])])
    IN  IF si = 0 THEN Strategy4(systems)
        ELSE IF ~systems[si].hasComponents THEN Thrown("TypeError")
        ELSE Found(systems, si, Find([n \in DOMAIN systems[si].components |-> Match(systems[si].components[n])]), "INFO")

\* Strategy 3: the first AGENT that is not disabled, else Strategy 4
Strategy3(systems) ==
    LET Match(c) == c.enabled # "false" /\ c.componentType = "AGENT"
        Stop(s) == ~s.hasComponents \/ Find([n \in DOMAIN s.components |-> Match(s.components[n])]) # 0
        si == Find([n \in DOMAIN systems |-> Stop(systems[n])])
    IN  IF si = 0 THEN Strategy4(systems)
        ELSE IF ~systems[si].hasComponents THEN Thrown("TypeError")
        ELSE Found(systems, si, Find([n \in DOMAIN systems[si].components |-> Match(systems[si].components[n])]), "INFO")

\* a systemId hint on its own must name a System of the document
discoverComponent_systemChecked(cfg, o, e) ==
    LET targetComponentId == TargetComponentId(o, e)
        targetSystemId == TargetSystemId(o, e)
    IN  IF ~cfg.hasSystems \/ Len(cfg.systems) = 0 THEN Thrown("NoSystems")
        ELSE IF targetSystemId # "" /\ targetComponentId # ""
             THEN Strategy1(cfg.systems, targetSystemId, targetComponentId)
        ELSE IF targetComponentId # ""
             THEN Strategy2(cfg.systems, targetComponentId)
        ELSE IF targetSystemId # ""
                /\ \A n \in DOMAIN cfg.systems : cfg.systems[n].systemId # targetSystemId
             THEN Thrown("SystemNotFound")
        ELSE Strategy3(cfg.systems)

discoverComponent(cfg, o, e) ==
    LET targetComponentId == TargetComponentId(o, e)
        targetSystemId == TargetSystemId(o, e)
    IN  IF ~cfg.hasSystems \/ Len(cfg.systems) = 0 THEN Thrown("NoSystems")
        ELSE IF targetSystemId # "" /\ targetComponentId # ""
             THEN Strategy1(cfg.systems, targetSystemId, targetComponentId)
        ELSE IF targetComponentId # ""
             THEN Strategy2(cfg.systems, targetComponentId)
        ELSE Strategy3(cfg.systems)

(***************************************************************************)
(* Inputs of discovery: documents of up to MaxSystems Systems holding up   *)
(* to MaxComponents Components, and up to MaxHints selector hints.         *)
(***************************************************************************)
SomeDeployment == [k \in {"port"} |-> JNum(4001)]

\* an enabled and a disabled AGENT under one id, a WEB component and an
\* explicitly enabled AGENT under the other
DiscoverComponents ==
    {Component("c1", "AGENT", "absent", TRUE, SomeDeployment),
     Component("c1", "AGENT", "false", TRUE, SomeDeployment),
     Component("c2", "WEB", "true", TRUE, SomeDeployment),
     Component("c2", "AGENT", "true", TRUE, SomeDeployment)}

DiscoverSystemHeads == {<<"s1", "IAM">>, <<"s2", "ERP">>}

\* the document of the Systems with the given heads over the given Components
DiscoverDocument(shape, heads, comps) ==
    Document("1.0", TRUE,
             [i \in DOMAIN shape |->
                System(heads[i][1], heads[i][2], TRUE, ComponentsOf(shape, comps, i))])

OptionInputs == [componentId : {"", "c1", "c2"}, systemId : {"", "s1", "s2"}]

EnvInputs ==
    [COMPONENT_ID : {"", "c1"}, TARGET_COMPONENT_ID : {"", "c2"},
     SYSTEM_ID : {"", "s1"}, TARGET_SYSTEM_ID : {"", "s2"}]

HintCount(o, e) ==
    Cardinality({k \in DOMAIN o : o[k] # ""}) + Cardinality({k \in DOMAIN e : e[k] # ""})

InitDiscover ==
    /\ pc = "start"
    /\ \E shape \in Shapes(MaxSystems, MaxComponents) :
        \E heads \in [DOMAIN shape -> DiscoverSystemHeads],
           comps \in [1..Sum(shape) -> DiscoverComponents] :
            config = DiscoverDocument(shape, heads, comps)
    /\ deployment = NoRecord
    /\ normalized = NoRecord
    /\ options = NoOptions
    /\ env = NoEnv
    /\ result = NoResult

\* one call discoverComponent(config, options) under an environment
Discover ==
    /\ pc = "start"
    /\ \E o \in OptionInputs, e \in EnvInputs :
        /\ HintCount(o, e) <= MaxHints
        /\ options' = o
        /\ env' = e
        /\ result' = discoverComponent(config, o, e)
    /\ pc' = "discovered"
    /\ UNCHANGED <<config, deployment, normalized>>

NextDiscover == Discover

SpecDiscover == InitDiscover /\ [][NextDiscover]_vars

\* the positions <<si, ci>> of the Components of a document
Places(systems) ==
    {p \in (DOMAIN systems) \X (1..MaxComponents + 1) : p[2] \in DOMAIN systems[p[1]].components}

ComponentAt(systems, p) == systems[p[1]].components[p[2]]

\* the first position of a set in document order
FirstPosition(P) ==
    CHOOSE p \in P : \A q \in P : p[1] < q[1] \/ (p[1] = q[1] /\ p[2] <= q[2])

\* the data model's invariant: systemId is unique within the document
UniqueSystemIds(systems) ==
    \A i, j \in DOMAIN systems : systems[i].systemId = systems[j].systemId => i = j

ReturnsComponentAt(p) ==
    /\ result.kind = "ok"
    /\ result.si = p[1]
    /\ result.ci = p[2]
    /\ result.systemId = config.systems[p[1]].systemId
    /\ result.systemType = config.systems[p[1]].systemType

(***************************************************************************)
(* C2: with no hint from the options or the environment, discovery         *)
(* succeeds on every document (of Systems with distinct ids) in which some *)
(* System holds a Component.                                               *)
(***************************************************************************)
C2_AutoDiscoveryNeverFails ==
    (/\ pc = "discovered"
     /\ TargetComponentId(options, env) = ""
     /\ TargetSystemId(options, env) = ""
     /\ UniqueSystemIds(config.systems)
     /\ \E i \in DOMAIN config.systems : Len(config.systems[i].components) > 0)
    => result.kind = "ok"

(***************************************************************************)
(* C3: with both hints, on a document with Systems: no System with the     *)
(* hinted id fails SystemNotFound; otherwise the System with that id (the  *)
(* first one, should the id repeat) is searched: its first Component with  *)
(* the hinted id is returned with that System's systemId and systemType,   *)
(* and when it holds none the call fails ComponentNotFound, whatever the   *)
(* other Systems hold.                                                     *)
(***************************************************************************)
C3_BothHints ==
    (/\ pc = "discovered"
     /\ TargetComponentId(options, env) # ""
     /\ TargetSystemId(options, env) # ""
     /\ Len(config.systems) > 0)
    =>
    LET S == {i \in DOMAIN config.systems :
                config.systems[i].systemId = TargetSystemId(options, env)}
        si == CHOOSE i \in S : \A j \in S : i <= j
        C == {j \in DOMAIN config.systems[si].components :
                config.systems[si].components[j].componentId = TargetComponentId(options, env)}
    IN  IF S = {} THEN result.kind = "error" /\ result.error = "SystemNotFound"
        ELSE IF C = {} THEN result.kind = "error" /\ result.error = "ComponentNotFound"
        ELSE ReturnsComponentAt(<<si, CHOOSE j \in C : \A k \in C : j <= k>>)

\* the hinted pair is found in the second System although the first System
\* holds a Component with the same id
C3_Witness ==
    /\ pc = "discovered"
    /\ TargetComponentId(options, env) = "c1"
    /\ TargetSystemId(options, env) = "s2"
    /\ Len(config.systems) = 2
    /\ config.systems[1].systemId = "s1"
    /\ Len(config.systems[1].components) = 1
    /\ config.systems[1].components[1].componentId = "c1"
    /\ result.kind = "ok"
    /\ result.si = 2

\* the named System lacks the Component that another System holds
C3_WitnessNotFound ==
    /\ pc = "discovered"
    /\ TargetComponentId(options, env) = "c1"
    /\ TargetSystemId(options, env) = "s2"
    /\ Len(config.systems) = 2
    /\ config.systems[1].systemId = "s1"
    /\ Len(config.systems[1].components) = 1
    /\ config.systems[1].components[1].componentId = "c1"
    /\ result.error = "ComponentNotFound"

(***************************************************************************)
(* C4: with a componentId hint only, on a document with Systems, the first *)
(* Component with that id in document order is returned with its System's  *)
(* systemId and systemType, whatever its type and enabled flag; the call   *)
(* fails ComponentNotFound exactly when no System holds that id.           *)
(***************************************************************************)
C4_ComponentHintOnly ==
    (/\ pc = "discovered"
     /\ TargetComponentId(options, env) # ""
     /\ TargetSystemId(options, env) = ""
     /\ Len(config.systems) > 0)
    =>
    LET P == {p \in Places(config.systems) :
                ComponentAt(config.systems, p).componentId = TargetComponentId(options, env)}
    IN  IF P = {} THEN result.kind = "error" /\ result.error = "ComponentNotFound"
        ELSE ReturnsComponentAt(FirstPosition(P))

\* two Components share the hinted id; the first one, a disabled AGENT, is returned
C4_Witness ==
    /\ pc = "discovered"
    /\ TargetComponentId(options, env) = "c1"
    /\ TargetSystemId(options, env) = ""
    /\ Cardinality({p \in Places(config.systems) :
                        ComponentAt(config.systems, p).componentId = "c1"}) = 2
    /\ result.kind = "ok"
    /\ config.systems[result.si].components[result.ci].enabled = "false"

C5_WitnessAgent ==
    /\ pc = "discovered"
    /\ options = NoOptions
    /\ env = NoEnv
    /\ Len(config.systems) = 2
    /\ Len(config.systems[1].components) = 1
    /\ config.systems[1].components[1].enabled = "false"
    /\ result.kind = "ok"
    /\ result.note = "INFO"
    /\ result.si = 2
(***************************************************************************)
(* Validator: src/bin/validate-config.ts, validate                         *)
(***************************************************************************)
Issue(severity, path, message) == [severity |-> severity, path |-> path, message |-> message]

\* `if (cond) issues.push(issue)`
PushIf(cond, issue) == IF cond THEN <<issue>> ELSE <<>>

\* the configPath argument
ConfigPath == "infra-config.json"

\* legacyFields, in the order of the array
LegacyFields ==
    << <<"dbLocalUrl", "localDatabaseUrl">>,
       <<"dbNetworkKey", "sharedDatabaseDeploymentKey">>,
       <<"repo", "githubRepo">>,
       <<"branch", "githubBranch">>,
       <<"commit", "githubCommit">> >>

\* the `deprecated` table, in the order of Object.entries
DeprecatedFields ==
    << <<"postgresHost", "Use mariadbHost instead">>,
       <<"postgresPort", "Use mariadbPort instead">>,
       <<"postgresUser", "Use mariadbUser instead">>,
       <<"postgresPassword", "Use mariadbPassword instead">>,
       <<"postgresDb", "Use mariadbDatabase instead">>,
       <<"mysqlHost", "Use mariadbHost instead">>,
       <<"mysqlPort", "Use mariadbPort instead">>,
       <<"mysqlUser", "Use mariadbUser instead">>,
       <<"mysqlPassword", "Use mariadbPassword instead">>,
       <<"mysqlDatabase", "Use mariadbDatabase instead">>,
       <<"mariadbDb", "Use mariadbDatabase (full word) instead">>,
       <<"corsOrigins", "Use corsOrigin (singular) instead">>,
       <<"iamApiUrl", "Use infraIamBaseUrl instead">>,
       <<"apiUrl", "Use apiBaseUrl instead">> >>

RECURSIVE LegacyIssues(_, _, _)
\* lines 118-126: one warning for each legacy field of the record, from the k-th on
LegacyIssues(dep, depPath, k) ==
    IF k > Len(LegacyFields) THEN <<>>
    ELSE PushIf(Get(dep, LegacyFields[k][1]) # Undefined,
                Issue("warning", depPath \o "." \o LegacyFields[k][1],
                      "Legacy field '" \o LegacyFields[k][1] \o "' is deprecated. Prefer '"
                        \o LegacyFields[k][2] \o "'."))
         \o LegacyIssues(dep, depPath, k + 1)

RECURSIVE DeprecatedIssues(_, _, _)
\* lines 148-156: one warning for each deprecated field of the record, from the k-th on
DeprecatedIssues(dep, depPath, k) ==
    IF k > Len(DeprecatedFields) THEN <<>>
    ELSE PushIf(Get(dep, DeprecatedFields[k][1]) # Undefined,
                Issue("warning", depPath \o "." \o DeprecatedFields[k][1],
                      "Deprecated field. " \o DeprecatedFields[k][2]))
         \o DeprecatedIssues(dep, depPath, k + 1)

\* SHARED accepts the deployment key only, never the direct connection fields
DatabaseUsageIssues_keyOnly(nd, depPath) ==
    LET mode == Get(nd, "databaseUsageMode")
    IN  IF ~Truthy(mode) THEN <<>>
        ELSE PushIf(mode \notin {JStr("LOCAL"), JStr("SHARED"), JStr("NONE")},
                    Issue("error", depPath \o ".databaseUsageMode",
                          "Invalid databaseUsageMode. Must be LOCAL, SHARED, or NONE"))
          \o PushIf(mode = JStr("LOCAL") /\ ~Truthy(Get(nd, "localDatabaseUrl")),
                    Issue("error", depPath \o ".localDatabaseUrl",
                          "localDatabaseUrl is required for LOCAL usage mode"))
          \o PushIf(mode = JStr("SHARED") /\ ~Truthy(Get(nd, "sharedDatabaseDeploymentKey")),
                    Issue("error", depPath \o ".sharedDatabaseDeploymentKey",
                          "For SHARED usage mode, provide sharedDatabaseDeploymentKey OR provide direct MariaDB connection fields (mariadbHost/mariadbPort/mariadbUser/mariadbDatabase)"))
          \o PushIf(/\ mode = JStr("NONE")
                    /\ \/ Truthy(Get(nd, "localDatabaseUrl"))
                       \/ Truthy(Get(nd, "sharedDatabaseDeploymentKey")),
                    Issue("warning", depPath, "Database fields present but usage mode is NONE"))

\* database fields under NONE are an error
DatabaseUsageIssues_noneIsError(nd, depPath) ==
    LET mode == Get(nd, "databaseUsageMode")
        hasDirectMariadbConnection ==
            /\ Truthy(Get(nd, "mariadbHost"))
            /\ Truthy(Get(nd, "mariadbPort"))
            /\ Truthy(Get(nd, "mariadbUser"))
            /\ Truthy(Get(nd, "mariadbDatabase"))
    IN  IF ~Truthy(mode) THEN <<>>
        ELSE PushIf(mode \notin {JStr("LOCAL"), JStr("SHARED"), JStr("NONE")},
                    Issue("error", depPath \o ".databaseUsageMode",
                          "Invalid databaseUsageMode. Must be LOCAL, SHARED, or NONE"))
          \o PushIf(mode = JStr("LOCAL") /\ ~Truthy(Get(nd, "localDatabaseUrl")),
                    Issue("error", depPath \o ".localDatabaseUrl",
                          "localDatabaseUrl is required for LOCAL usage mode"))
          \o PushIf(/\ mode = JStr("SHARED")
                    /\ ~Truthy(Get(nd, "sharedDatabaseDeploymentKey"))
                    /\ ~hasDirectMariadbConnection,
                    Issue("error", depPath \o ".sharedDatabaseDeploymentKey",
                          "For SHARED usage mode, provide sharedDatabaseDeploymentKey OR provide direct MariaDB connection fields (mariadbHost/mariadbPort/mariadbUser/mariadbDatabase)"))
          \o PushIf(/\ mode = JStr("NONE")
                    /\ \/ Truthy(Get(nd, "localDatabaseUrl"))
                       \/ Truthy(Get(nd, "sharedDatabaseDeploymentKey")),
                    Issue("error", depPath, "Database fields present but usage mode is NONE"))

\* lines 169-218: the rules gated on a truthy databaseUsageMode
DatabaseUsageIssues(nd, depPath) ==
    LET mode == Get(nd, "databaseUsageMode")
        hasDirectMariadbConnection ==
            /\ Truthy(Get(nd, "mariadbHost"))
            /\ Truthy(Get(nd, "mariadbPort"))
            /\ Truthy(Get(nd, "mariadbUser"))
            /\ Truthy(Get(nd, "mariadbDatabase"))
    IN  IF ~Truthy(mode) THEN <<>>
        ELSE PushIf(mode \notin {JStr("LOCAL"), JStr("SHARED"), JStr("NONE")},
                    Issue("error", depPath \o ".databaseUsageMode",
                          "Invalid databaseUsageMode. Must be LOCAL, SHARED, or NONE"))
          \o PushIf(mode = JStr("LOCAL") /\ ~Truthy(Get(nd, "localDatabaseUrl")),
                    Issue("error", depPath \o ".localDatabaseUrl",
                          "localDatabaseUrl is required for LOCAL usage mode"))
          \o PushIf(/\ mode = JStr("SHARED")
                    /\ ~Truthy(Get(nd, "sharedDatabaseDeploymentKey"))
                    /\ ~hasDirectMariadbConnection,
                    Issue("error", depPath \o ".sharedDatabaseDeploymentKey",
                          "For SHARED usage mode, provide sharedDatabaseDeploymentKey OR provide direct MariaDB connection fields (mariadbHost/mariadbPort/mariadbUser/mariadbDatabase)"))
          \o PushIf(/\ mode = JStr("NONE")
                    /\ \/ Truthy(Get(nd, "localDatabaseUrl"))
                       \/ Truthy(Get(nd, "sharedDatabaseDeploymentKey")),
                    Issue("warning", depPath, "Database fields present but usage mode is NONE"))

\* lines 220-258: any of host, port, user asks for all the MariaDB fields
MariadbIssues(nd, depPath) ==
    LET hasMariadbFields ==
            \/ Truthy(Get(nd, "mariadbHost"))
            \/ Truthy(Get(nd, "mariadbPort"))
            \/ Truthy(Get(nd, "mariadbUser"))
    IN  IF ~hasMariadbFields THEN <<>>
        ELSE PushIf(~Truthy(Get(nd, "mariadbHost")),
                    Issue("error", depPath \o ".mariadbHost",
                          "mariadbHost required when using MariaDB"))
          \o PushIf(~Truthy(Get(nd, "mariadbPort")),
                    Issue("error", depPath \o ".mariadbPort",
                          "mariadbPort required when using MariaDB"))
          \o PushIf(~Truthy(Get(nd, "mariadbUser")),
                    Issue("error", depPath \o ".mariadbUser",
                          "mariadbUser required when using MariaDB"))
          \o PushIf(~Truthy(Get(nd, "mariadbPassword")),
                    Issue("warning", depPath \o ".mariadbPassword",
                          "mariadbPassword not set (may be intentional for testing)"))
          \o PushIf(~Truthy(Get(nd, "mariadbDatabase")),
                    Issue("error", depPath \o ".mariadbDatabase",
                          "mariadbDatabase required when using MariaDB"))

\* the MariaDB rule is applied only when no databaseUsageMode is declared
AgentIssues_mariadbWithoutMode(nd, depPath) ==
    PushIf(~Truthy(Get(nd, "port")),
           Issue("error", depPath \o ".port", "Missing required field: port"))
    \o DatabaseUsageIssues(nd, depPath)
    \o (IF Truthy(Get(nd, "databaseUsageMode")) THEN <<>> ELSE MariadbIssues(nd, depPath))

\* lines 158-259: the rules for an AGENT, on the normalized record
AgentIssues(nd, depPath) ==
    PushIf(~Truthy(Get(nd, "port")),
           Issue("error", depPath \o ".port", "Missing required field: port"))
    \o DatabaseUsageIssues(nd, depPath)
    \o MariadbIssues(nd, depPath)

\* lines 261-277: the rules for a WEB component, on the record as written
WebIssues(dep, depPath) ==
    PushIf(~Truthy(Get(dep, "port")),
           Issue("error", depPath \o ".port", "Missing required field: port"))
    \o PushIf(~Truthy(Get(dep, "apiBaseUrl")),
              Issue("warning", depPath \o ".apiBaseUrl",
                    "WEB components typically need apiBaseUrl to connect to AGENT"))

\* the AGENT rules read the record as written, not the normalized one
FieldIssues_asWritten(component, depPath) ==
    LET dep == component.deployment
    IN  LegacyIssues(dep, depPath, 1)
        \o DeprecatedIssues(dep, depPath, 1)
        \o (IF component.componentType = "AGENT" THEN AgentIssues(dep, depPath) ELSE <<>>)
        \o (IF component.componentType = "WEB" THEN WebIssues(dep, depPath) ELSE <<>>)

\* the AGENT rules are applied whatever the componentType
FieldIssues_everyType(component, depPath) ==
    LET dep == component.deployment
        normalizedDep == normalizeDeploymentConfig(dep)
    IN  LegacyIssues(dep, depPath, 1)
        \o DeprecatedIssues(dep, depPath, 1)
        \o AgentIssues(normalizedDep, depPath)
        \o (IF component.componentType = "WEB" THEN WebIssues(dep, depPath) ELSE <<>>)

\* lines 106-277: the checks of a component's deployment record
FieldIssues(component, depPath) ==
    LET dep == component.deployment
        normalizedDep == normalizeDeploymentConfig(dep)
    IN  LegacyIssues(dep, depPath, 1)
        \o DeprecatedIssues(dep, depPath, 1)
        \o (IF component.componentType = "AGENT"
            THEN AgentIssues(normalizedDep, depPath) ELSE <<>>)
        \o (IF component.componentType = "WEB" THEN WebIssues(dep, depPath) ELSE <<>>)

\* lines 86-278: the callback of system.components.forEach
ComponentIssues(component, compPath) ==
    PushIf(component.componentId = "",
           Issue("error", compPath \o ".componentId", "Missing componentId"))
    \o (IF ~component.hasDeployment
        THEN <<Issue("error", compPath \o ".deployment", "Missing deployment configuration")>>
        ELSE FieldIssues(component, compPath \o ".deployment"))

RECURSIVE ForEachComponent(_, _, _)
\* system.components.forEach from the k-th component on
ForEachComponent(components, sysPath, k) ==
    IF k > Len(components) THEN <<>>
    ELSE ComponentIssues(components[k], sysPath \o ".components[" \o ToString(k - 1) \o "]")
         \o ForEachComponent(components, sysPath, k + 1)

\* lines 65-279: the callback of config.systems.forEach
SystemIssues(system, sysPath) ==
    PushIf(system.systemId = "", Issue("error", sysPath \o ".systemId", "Missing systemId"))
    \o (IF ~system.hasComponents
        THEN <<Issue("error", sysPath \o ".components", "Missing or invalid components array")>>
        ELSE ForEachComponent(system.components, sysPath, 1))

RECURSIVE ForEachSystem_stopsAtGap(_, _)
\* a System without a components array ends the whole traversal
ForEachSystem_stopsAtGap(systems, k) ==
    IF k > Len(systems) THEN <<>>
    ELSE SystemIssues(systems[k], "systems[" \o ToString(k - 1) \o "]")
         \o (IF ~systems[k].hasComponents THEN <<>>
             ELSE ForEachSystem_stopsAtGap(systems, k + 1))

RECURSIVE ForEachSystem(_, _)
\* config.systems.forEach from the k-th System on
ForEachSystem(systems, k) ==
    IF k > Len(systems) THEN <<>>
    ELSE SystemIssues(systems[k], "systems[" \o ToString(k - 1) \o "]")
         \o ForEachSystem(systems, k + 1)

\* any issue at all makes the document invalid
HasErrors_anyIssue(issues) == issues # <<>>

\* line 281: issues.some(i => i.severity === 'error')
HasErrors(issues) == \E i \in DOMAIN issues : issues[i].severity = "error"

Returned(valid, issues) == [kind |-> "returned", valid |-> valid, issues |-> issues, error |-> ""]

\* validate(configPath), cfg being what is found at configPath
validate(cfg) ==
    IF cfg.kind = "absent"
    THEN Returned(FALSE, <<Issue("error", ConfigPath, "Configuration file not found")>>)
    ELSE IF cfg.kind = "malformed"
    THEN Returned(FALSE, <<Issue("error", ConfigPath, "Invalid JSON: Unexpected token")>>)
    ELSE IF cfg.kind = "null"
    THEN [kind |-> "thrown", valid |-> FALSE, issues |-> <<>>, error |-> "TypeError"]
    ELSE LET head == PushIf(cfg.schemaVersion = "",
                            Issue("warning", "schemaVersion", "Missing schemaVersion field"))
         IN  IF ~cfg.hasSystems
             THEN Returned(FALSE, head \o <<Issue("error", "systems",
                                                   "Missing or invalid systems array")>>)
             ELSE LET issues == head \o ForEachSystem(cfg.systems, 1)
                  IN  Returned(~HasErrors(issues), issues)
(***************************************************************************)
(* Inputs of the validator.  Structure documents vary the shape of the     *)
(* document (missing arrays, objects and ids) over a few deployment        *)
(* records; field documents hold one component and vary its record over    *)
(* the fields the rules read.                                              *)
(***************************************************************************)
\* what is at configPath when there is no parsed object to walk
FileState(kind) == [kind |-> kind, schemaVersion |-> "", hasSystems |-> FALSE, systems |-> <<>>]

\* a record that passes for an AGENT, and one with a legacy field and two errors
GoodDeployment == [k \in {"port"} |-> JNum(4001)]
BadDeployment ==
    [k \in {"dbLocalUrl", "databaseUsageMode"} |->
        IF k = "dbLocalUrl" THEN JStr("mysql://db") ELSE JStr("BOGUS")]

StructComponents ==
    {Component("c1", "AGENT", "absent", TRUE, GoodDeployment),
     Component("c1", "AGENT", "absent", TRUE, BadDeployment),
     Component("c1", "WEB", "absent", TRUE, GoodDeployment),
     Component("", "WEB", "absent", TRUE, BadDeployment),
     Component("c1", "AGENT", "absent", FALSE, NoRecord),
     Component("", "AGENT", "absent", FALSE, NoRecord)}

\* systemId and whether the components array is there
StructSystemHeads == {<<"s1", TRUE>>, <<"", TRUE>>, <<"s1", FALSE>>, <<"", FALSE>>}

\* the document of the Systems with the given heads over the given Components
StructDocument(schemaVersion, shape, heads, comps) ==
    Document(schemaVersion, TRUE,
             [i \in DOMAIN shape |->
                System(heads[i][1], "IAM", heads[i][2], ComponentsOf(shape, comps, i))])

One(field, value) == [k \in {field} |-> value]

PortGroup == {NoRecord, One("port", JNum(4001)), One("port", JNum(0))}
ModeGroup ==
    {NoRecord} \cup {One("databaseUsageMode", JStr(m)) : m \in {"LOCAL", "SHARED", "NONE", "BOGUS"}}
UrlGroup ==
    {NoRecord, One("localDatabaseUrl", JStr("mysql://db")), One("dbLocalUrl", JStr("mysql://db")),
     One("localDatabaseUrl", JStr(""))}
KeyGroup ==
    {NoRecord, One("sharedDatabaseDeploymentKey", JStr("key")), One("dbNetworkKey", JStr("key"))}
MariadbValues ==
    [mariadbHost |-> JStr("db"), mariadbPort |-> JNum(3306), mariadbUser |-> JStr("app"),
     mariadbPassword |-> JStr("secret"), mariadbDatabase |-> JStr("main")]
MariadbGroup == {[f \in S |-> MariadbValues[f]] : S \in SUBSET DOMAIN MariadbValues}
OtherGroup ==
    {NoRecord, One("postgresHost", JStr("pg")), One("apiBaseUrl", JStr("http://api")),
     One("postgresHost", JStr("pg")) @@ One("apiBaseUrl", JStr("http://api"))}

\* a document of one System holding one Component
FieldDocument(type, dep) ==
    Document("1.0", TRUE, <<System("s1", "IAM", TRUE, <<Component("c1", type, "absent", TRUE, dep)>>)>>)

InitValidate ==
    /\ pc = "start"
    /\ \/ config \in {FileState("absent"), FileState("malformed"), FileState("null")}
       \/ config \in {Document("1.0", FALSE, <<>>), Document("", FALSE, <<>>)}
       \/ \E shape \in Shapes(MaxSystems, MaxComponents), v \in {"1.0", ""} :
            \E heads \in [DOMAIN shape -> StructSystemHeads],
               comps \in [1..Sum(shape) -> StructComponents] :
                /\ \A i \in DOMAIN shape : shape[i] > 0 => heads[i][2]
                /\ config = StructDocument(v, shape, heads, comps)
       \/ \E type \in {"AGENT", "WEB"}, p \in PortGroup, m \in ModeGroup, u \in UrlGroup,
             k \in KeyGroup, db \in MariadbGroup, o \in OtherGroup :
            config = FieldDocument(type, p @@ m @@ u @@ k @@ db @@ o)
    /\ deployment = NoRecord
    /\ normalized = NoRecord
    /\ options = NoOptions
    /\ env = NoEnv
    /\ result = NoResult

\* one call validate(configPath)
Validate ==
    /\ pc = "start"
    /\ pc' = "validated"
    /\ result' = validate(config)
    /\ UNCHANGED <<config, deployment, normalized, options, env>>

NextValidate == Validate

SpecValidate == InitValidate /\ [][NextValidate]_vars

\* the issues of one severity, in order
OfSeverity(issues, severity) ==
    LET Is(i) == i.severity = severity IN SelectSeq(issues, Is)

Reports(issue) == \E k \in DOMAIN result.issues : result.issues[k] = issue

(***************************************************************************)
(* C1: whenever validate returns, valid is false exactly when the issues   *)
(* hold an issue of severity error; a result of warnings only is valid.    *)
(***************************************************************************)
C1_ValidIffNoError ==
    (pc = "validated" /\ result.kind = "returned") =>
        (result.valid = FALSE <=> \E k \in DOMAIN result.issues : result.issues[k].severity = "error")

\* a walked document with warnings and no error
C1_Witness ==
    /\ pc = "validated"
    /\ result.kind = "returned"
    /\ config.kind = "object"
    /\ Len(result.issues) >= 2
    /\ \A k \in DOMAIN result.issues : result.issues[k].severity = "warning"
    /\ result.valid = TRUE

(***************************************************************************)
(* C6: when the systems array is there, every System and every Component   *)
(* is visited: a System without a components array and a Component without *)
(* a deployment object are each reported, and every issue that any System  *)
(* or Component yields at its place in the document is in the result.      *)
(* Without the systems array the result is that one error (after the       *)
(* schemaVersion warning).                                                 *)
(***************************************************************************)
C6_NeverStopsEarly ==
    (pc = "validated" /\ config.kind = "object") =>
        /\ result.kind = "returned"
        /\ ~config.hasSystems =>
            /\ OfSeverity(result.issues, "error")
                 = <<Issue("error", "systems", "Missing or invalid systems array")>>
            /\ ~result.valid
        /\ config.hasSystems =>
            \A i \in DOMAIN config.systems :
                LET system == config.systems[i]
                    sysPath == "systems[" \o ToString(i - 1) \o "]"
                IN  /\ system.systemId = "" =>
                        Reports(Issue("error", sysPath \o ".systemId", "Missing systemId"))
                    /\ ~system.hasComponents =>
                        Reports(Issue("error", sysPath \o ".components",
                                      "Missing or invalid components array"))
                    /\ \A j \in DOMAIN system.components :
                        LET component == system.components[j]
                            compPath == sysPath \o ".components[" \o ToString(j - 1) \o "]"
                            own == ComponentIssues(component, compPath)
                        IN  /\ ~component.hasDeployment =>
                                Reports(Issue("error", compPath \o ".deployment",
                                              "Missing deployment configuration"))
                            /\ \A k \in DOMAIN own : Reports(own[k])

\* a System without components comes first and the Component of the System
\* after it still has its missing port reported
C6_Witness ==
    /\ pc = "validated"
    /\ Len(config.systems) = 2
    /\ ~config.systems[1].hasComponents
    /\ Len(config.systems[2].components) = 1
    /\ Reports(Issue("error", "systems[0].components", "Missing or invalid components array"))
    /\ Reports(Issue("error", "systems[1].components[0].deployment.port",
                     "Missing required field: port"))

(***************************************************************************)
(* C10: a document of one AGENT component with a port, databaseUsageMode   *)
(* LOCAL and none of mariadbHost, mariadbPort, mariadbUser: with neither   *)
(* localDatabaseUrl nor dbLocalUrl the result has exactly one error, the   *)
(* one asking for localDatabaseUrl, and is not valid; with a URL under     *)
(* localDatabaseUrl, or under dbLocalUrl alone, it has no error and is     *)
(* valid.                                                                  *)
(***************************************************************************)
C10_LocalNeedsUrl ==
    (/\ pc = "validated"
     /\ config.kind = "object"
     /\ config.hasSystems
     /\ Len(config.systems) = 1
     /\ config.systems[1].systemId # ""
     /\ Len(config.systems[1].components) = 1
     /\ config.systems[1].components[1].componentId # ""
     /\ config.systems[1].components[1].hasDeployment
     /\ config.systems[1].components[1].componentType = "AGENT"
     /\ Truthy(Get(config.systems[1].components[1].deployment, "port"))
     /\ Get(config.systems[1].components[1].deployment, "databaseUsageMode") = JStr("LOCAL")
     /\ \A f \in {"mariadbHost", "mariadbPort", "mariadbUser"} :
            f \notin DOMAIN config.systems[1].components[1].deployment)
    =>
    LET dep == config.systems[1].components[1].deployment
        errors == OfSeverity(result.issues, "error")
    IN  /\ ("localDatabaseUrl" \notin DOMAIN dep /\ "dbLocalUrl" \notin DOMAIN dep) =>
            /\ errors = <<Issue("error", "systems[0].components[0].deployment.localDatabaseUrl",
                                "localDatabaseUrl is required for LOCAL usage mode")>>
            /\ result.valid = FALSE
        /\ (\/ Truthy(Get(dep, "localDatabaseUrl"))
            \/ "localDatabaseUrl" \notin DOMAIN dep /\ Truthy(Get(dep, "dbLocalUrl"))) =>
            /\ errors = <<>>
            /\ result.valid = TRUE

\* the URL is given under the legacy name only and the component passes
C10_Witness ==
    /\ pc = "validated"
    /\ Len(config.systems) = 1
    /\ Len(config.systems[1].components) = 1
    /\ config.systems[1].components[1].componentType = "AGENT"
    /\ Get(config.systems[1].components[1].deployment, "databaseUsageMode") = JStr("LOCAL")
    /\ "dbLocalUrl" \in DOMAIN config.systems[1].components[1].deployment
    /\ "localDatabaseUrl" \notin DOMAIN config.systems[1].components[1].deployment
    /\ "mariadbPassword" \in DOMAIN config.systems[1].components[1].deployment
    /\ result.valid = TRUE
    /\ OfSeverity(result.issues, "error") = <<>>

\* neither name is given: the one error
C10_WitnessMissing ==
    /\ pc = "validated"
    /\ Len(config.systems) = 1
    /\ Len(config.systems[1].components) = 1
    /\ config.systems[1].components[1].componentType = "AGENT"
    /\ Get(config.systems[1].components[1].deployment, "databaseUsageMode") = JStr("LOCAL")
    /\ Len(OfSeverity(result.issues, "error")) = 1
    /\ Len(OfSeverity(result.issues, "warning")) = 1
    /\ result.valid = FALSE

(***************************************************************************)
(* The claims on the database rules read a document of one System holding  *)
(* one Component, both with their ids, whose deployment record is there.   *)
(***************************************************************************)
OneComponent(type) ==
    /\ pc = "validated"
    /\ config.kind = "object"
    /\ config.hasSystems
    /\ Len(config.systems) = 1
    /\ config.systems[1].systemId # ""
    /\ config.systems[1].hasComponents
    /\ Len(config.systems[1].components) = 1
    /\ config.systems[1].components[1].componentId # ""
    /\ config.systems[1].components[1].hasDeployment
    /\ config.systems[1].components[1].componentType = type

TheDeployment == config.systems[1].components[1].deployment
TheDepPath == "systems[0].components[0].deployment"
Errors == OfSeverity(result.issues, "error")

\* a field given with a truthy value
Has(dep, field) == Truthy(Get(dep, field))

\* a value under the canonical name, or under the legacy name when the
\* canonical name is not in the record
HasEither(dep, canonical, legacy) ==
    \/ Has(dep, canonical)
    \/ canonical \notin DOMAIN dep /\ Has(dep, legacy)

HasDirectTuple(dep) ==
    \A f \in {"mariadbHost", "mariadbPort", "mariadbUser", "mariadbDatabase"} : Has(dep, f)

SharedError ==
    Issue("error", TheDepPath \o ".sharedDatabaseDeploymentKey",
          "For SHARED usage mode, provide sharedDatabaseDeploymentKey OR provide direct MariaDB connection fields (mariadbHost/mariadbPort/mariadbUser/mariadbDatabase)")

(***************************************************************************)
(* C11: for an AGENT component with a port and databaseUsageMode SHARED,   *)
(* the SHARED error is absent exactly when a shared deployment key         *)
(* (sharedDatabaseDeploymentKey, or dbNetworkKey alone) is given or all of *)
(* mariadbHost, mariadbPort, mariadbUser, mariadbDatabase are given; with  *)
(* the four fields and no key the result has no error and is valid; with   *)
(* neither the result is not valid and holds the error whose message names *)
(* both alternatives.                                                      *)
(***************************************************************************)
C11_SharedEitherWay ==
    (/\ OneComponent("AGENT")
     /\ Has(TheDeployment, "port")
     /\ Get(TheDeployment, "databaseUsageMode") = JStr("SHARED"))
    =>
    LET hasKey == HasEither(TheDeployment, "sharedDatabaseDeploymentKey", "dbNetworkKey")
    IN  /\ Reports(SharedError) <=> ~(hasKey \/ HasDirectTuple(TheDeployment))
        /\ (HasDirectTuple(TheDeployment) /\ ~hasKey) =>
            /\ Errors = <<>>
            /\ result.valid = TRUE
        /\ ~(hasKey \/ HasDirectTuple(TheDeployment)) => result.valid = FALSE
        /\ \A k \in DOMAIN Errors :
            Errors[k].path = TheDepPath \o ".sharedDatabaseDeploymentKey" => Errors[k] = SharedError

\* the four direct fields, no key under either name: valid without errors
C11_Witness ==
    /\ OneComponent("AGENT")
    /\ Get(TheDeployment, "databaseUsageMode") = JStr("SHARED")
    /\ HasDirectTuple(TheDeployment)
    /\ "sharedDatabaseDeploymentKey" \notin DOMAIN TheDeployment
    /\ "dbNetworkKey" \notin DOMAIN TheDeployment
    /\ "mariadbPassword" \notin DOMAIN TheDeployment
    /\ Errors = <<>>
    /\ result.valid = TRUE

\* neither a key nor the whole tuple: the SHARED error
C11_WitnessNeither ==
    /\ OneComponent("AGENT")
    /\ Has(TheDeployment, "port")
    /\ Get(TheDeployment, "databaseUsageMode") = JStr("SHARED")
    /\ DOMAIN TheDeployment \cap DOMAIN MariadbValues = {"mariadbDatabase"}
    /\ Errors = <<SharedError>>
    /\ result.valid = FALSE

\* the key under the legacy name alone satisfies the rule
C11_WitnessLegacyKey ==
    /\ OneComponent("AGENT")
    /\ Has(TheDeployment, "port")
    /\ Get(TheDeployment, "databaseUsageMode") = JStr("SHARED")
    /\ Has(TheDeployment, "dbNetworkKey")
    /\ ~HasDirectTuple(TheDeployment)
    /\ ~Reports(SharedError)

NoneWarning == Issue("warning", TheDepPath, "Database fields present but usage mode is NONE")

\* the paths of the errors that the port rule and the MariaDB rule report
PortAndMariadbPaths ==
    {TheDepPath \o "." \o f : f \in {"port", "mariadbHost", "mariadbPort", "mariadbUser", "mariadbDatabase"}}

ErrorsAt(field) ==
    LET At(i) == i.path = TheDepPath \o "." \o field IN Len(SelectSeq(Errors, At))

MariadbError(field) ==
    Issue("error", TheDepPath \o "." \o field, field \o " required when using MariaDB")

PasswordWarning ==
    Issue("warning", TheDepPath \o ".mariadbPassword",
          "mariadbPassword not set (may be intentional for testing)")

C13_WitnessInvalidMode ==
    /\ OneComponent("AGENT")
    /\ Get(TheDeployment, "databaseUsageMode") = JStr("BOGUS")
    /\ DOMAIN TheDeployment \cap DOMAIN MariadbValues = {"mariadbUser", "mariadbPassword"}
    /\ ErrorsAt("mariadbHost") = 1
    /\ ErrorsAt("mariadbDatabase") = 1
    /\ ~Reports(PasswordWarning)

\* no databaseUsageMode at all
C13_WitnessNoMode ==
    /\ OneComponent("AGENT")
    /\ "databaseUsageMode" \notin DOMAIN TheDeployment
    /\ DOMAIN TheDeployment \cap DOMAIN MariadbValues = {"mariadbPort"}
    /\ ErrorsAt("mariadbHost") = 1
    /\ Reports(PasswordWarning)

InvalidModeError ==
    Issue("error", TheDepPath \o ".databaseUsageMode",
          "Invalid databaseUsageMode. Must be LOCAL, SHARED, or NONE")

LocalError ==
    Issue("error", TheDepPath \o ".localDatabaseUrl",
          "localDatabaseUrl is required for LOCAL usage mode")

\* the two database rules named by C14, as they read the record
ModeRulesReported ==
    /\ (/\ Has(TheDeployment, "databaseUsageMode")
        /\ Get(TheDeployment, "databaseUsageMode") \notin {JStr("LOCAL"), JStr("SHARED"), JStr("NONE")})
            => Reports(InvalidModeError)
    /\ (/\ Get(TheDeployment, "databaseUsageMode") = JStr("LOCAL")
        /\ ~HasEither(TheDeployment, "localDatabaseUrl", "dbLocalUrl"))
            => Reports(LocalError)

(***************************************************************************)
(* C14, as claimed: for a WEB component as for an AGENT component, a       *)
(* databaseUsageMode outside LOCAL, SHARED, NONE has its error, and LOCAL  *)
(* without a local database URL has its error.                             *)
(***************************************************************************)
C14_EveryComponentType ==
    (OneComponent("AGENT") \/ OneComponent("WEB")) => ModeRulesReported

(***************************************************************************)
(* C14, amended: the database rules are applied to AGENT components only.  *)
(* An AGENT component has the two errors as claimed; a WEB component has   *)
(* no error but that of a missing port, whatever its databaseUsageMode,    *)
(* database URL, key and MariaDB fields are.                               *)
(***************************************************************************)
C14_AgentOnly ==
    /\ OneComponent("AGENT") => ModeRulesReported
    /\ OneComponent("WEB") =>
        /\ \A k \in DOMAIN Errors :
            Errors[k] = Issue("error", TheDepPath \o ".port", "Missing required field: port")
        /\ Has(TheDeployment, "port") => result.valid = TRUE

\* a WEB component with a port and an invalid databaseUsageMode is valid
C14_Witness ==
    /\ OneComponent("WEB")
    /\ Has(TheDeployment, "port")
    /\ Get(TheDeployment, "databaseUsageMode") = JStr("BOGUS")
    /\ Errors = <<>>
    /\ result.valid = TRUE

\* an error of the result at one of the paths
ErrorAtOneOf(fields) ==
    \E k \in DOMAIN Errors : \E f \in fields : Errors[k].path = TheDepPath \o "." \o f

(***************************************************************************)
(* C15: an AGENT component with databaseUsageMode LOCAL and no database    *)
(* network key, under dbNetworkKey or sharedDatabaseDeploymentKey, is not  *)
(* valid and has an error on the missing key.                              *)
(***************************************************************************)
C15_LocalNeedsNetworkKey ==
    (/\ OneComponent("AGENT")
     /\ Get(TheDeployment, "databaseUsageMode") = JStr("LOCAL")
     /\ "dbNetworkKey" \notin DOMAIN TheDeployment
     /\ "sharedDatabaseDeploymentKey" \notin DOMAIN TheDeployment)
    =>
    /\ result.valid = FALSE
    /\ ErrorAtOneOf({"dbNetworkKey", "sharedDatabaseDeploymentKey"})

(***************************************************************************)
(* C16: an AGENT component with databaseUsageMode SHARED that gives a      *)
(* local database URL, under dbLocalUrl or localDatabaseUrl, is not valid  *)
(* and has an error on the URL.                                            *)
(***************************************************************************)
C16_SharedForbidsLocalUrl ==
    (/\ OneComponent("AGENT")
     /\ Get(TheDeployment, "databaseUsageMode") = JStr("SHARED")
     /\ HasEither(TheDeployment, "localDatabaseUrl", "dbLocalUrl"))
    =>
    /\ result.valid = FALSE
    /\ ErrorAtOneOf({"dbLocalUrl", "localDatabaseUrl"})

(***************************************************************************)
(* Names of environment variables (bin/extract-config.ts, toEnvVarName).   *)
(* A name is read letter by letter, so it is a sequence of characters      *)
(* here; Text gives the string that the sequence spells and Spelling the   *)
(* sequence of a field name of the model.                                  *)
(***************************************************************************)
\* most characters of a field name drawn from NameLetters
MaxNameLen == 4

LowerCase ==
    <<"a", "b", "c", "d", "e", "f", "g", "h", "i", "j", "k", "l", "m",
      "n", "o", "p", "q", "r", "s", "t", "u", "v", "w", "x", "y", "z">>
UpperCase ==
    <<"A", "B", "C", "D", "E", "F", "G", "H", "I", "J", "K", "L", "M",
      "N", "O", "P", "Q", "R", "S", "T", "U", "V", "W", "X", "Y", "Z">>

\* the character class [A-Z]
IsUpper(c) == \E i \in DOMAIN UpperCase : UpperCase[i] = c

\* String.prototype.toUpperCase, one character
ToUpperCase(c) ==
    IF \E i \in DOMAIN LowerCase : LowerCase[i] = c
    THEN UpperCase[CHOOSE i \in DOMAIN LowerCase : LowerCase[i] = c]
    ELSE c

UpperCased(chars) == [i \in DOMAIN chars |-> ToUpperCase(chars[i])]

RECURSIVE Text(_)
\* the string that a sequence of characters spells
Text(chars) == IF chars = <<>> THEN "" ELSE Head(chars) \o Text(Tail(chars))

RECURSIVE ReplaceCapitals(_)
\* line 77: key.replace(/([A-Z])/g, '_$1')
ReplaceCapitals(chars) ==
    IF chars = <<>> THEN <<>>
    ELSE (IF IsUpper(Head(chars)) THEN <<"_", Head(chars)>> ELSE <<Head(chars)>>)
         \o ReplaceCapitals(Tail(chars))

\* line 79: .replace(/^_/, '')
DropLeadingUnderscore(chars) ==
    IF chars # <<>> /\ Head(chars) = "_" THEN Tail(chars) ELSE chars

\* lines 75-80
toEnvVarName(key) == DropLeadingUnderscore(UpperCased(ReplaceCapitals(key)))

\* the characters of a field name
Spelling(name) ==
    IF name = "port"
        THEN <<"p", "o", "r", "t">>
    ELSE IF name = "Port"
        THEN <<"P", "o", "r", "t">>
    ELSE IF name = "mariadbHost"
        THEN <<"m", "a", "r", "i", "a", "d", "b", "H", "o", "s", "t">>
    ELSE IF name = "mariadbPort"
        THEN <<"m", "a", "r", "i", "a", "d", "b", "P", "o", "r", "t">>
    ELSE IF name = "mariadbUser"
        THEN <<"m", "a", "r", "i", "a", "d", "b", "U", "s", "e", "r">>
    ELSE IF name = "mariadbPassword"
        THEN <<"m", "a", "r", "i", "a", "d", "b", "P", "a", "s", "s", "w", "o", "r", "d">>
    ELSE IF name = "mariadbDatabase"
        THEN <<"m", "a", "r", "i", "a", "d", "b", "D", "a", "t", "a", "b", "a", "s", "e">>
    ELSE IF name = "mariadbSslEnabled"
        THEN <<"m", "a", "r", "i", "a", "d", "b", "S", "s", "l", "E", "n", "a", "b", "l", "e", "d">>
    ELSE IF name = "cookieSecure"
        THEN <<"c", "o", "o", "k", "i", "e", "S", "e", "c", "u", "r", "e">>
    ELSE IF name = "databaseUsageMode"
        THEN <<"d", "a", "t", "a", "b", "a", "s", "e", "U", "s", "a", "g", "e", "M", "o", "d", "e">>
    ELSE IF name = "localDatabaseUrl"
        THEN <<"l", "o", "c", "a", "l", "D", "a", "t", "a", "b", "a", "s", "e", "U", "r", "l">>
    ELSE IF name = "dbLocalUrl"
        THEN <<"d", "b", "L", "o", "c", "a", "l", "U", "r", "l">>
    ELSE IF name = "sharedDatabaseDeploymentKey"
        THEN <<"s", "h", "a", "r", "e", "d", "D", "a", "t", "a", "b", "a", "s", "e", "D", "e", "p", "l", "o", "y", "m", "e", "n", "t", "K", "e", "y">>
    ELSE IF name = "dbNetworkKey"
        THEN <<"d", "b", "N", "e", "t", "w", "o", "r", "k", "K", "e", "y">>
    ELSE IF name = "githubRepo"
        THEN <<"g", "i", "t", "h", "u", "b", "R", "e", "p", "o">>
    ELSE IF name = "repo"
        THEN <<"r", "e", "p", "o">>
    ELSE IF name = "githubBranch"
        THEN <<"g", "i", "t", "h", "u", "b", "B", "r", "a", "n", "c", "h">>
    ELSE IF name = "branch"
        THEN <<"b", "r", "a", "n", "c", "h">>
    ELSE IF name = "githubCommit"
        THEN <<"g", "i", "t", "h", "u", "b", "C", "o", "m", "m", "i", "t">>
    ELSE IF name = "commit"
        THEN <<"c", "o", "m", "m", "i", "t">>
    ELSE IF name = "oidcRedirectUri"
        THEN <<"o", "i", "d", "c", "R", "e", "d", "i", "r", "e", "c", "t", "U", "r", "i">>
    ELSE IF name = "oidcGuiRedirectUris"
        THEN <<"o", "i", "d", "c", "G", "u", "i", "R", "e", "d", "i", "r", "e", "c", "t", "U", "r", "i", "s">>
    ELSE IF name = "moduleUrls"
        THEN <<"m", "o", "d", "u", "l", "e", "U", "r", "l", "s">>
    ELSE IF name = "moduleApiBaseUrls"
        THEN <<"m", "o", "d", "u", "l", "e", "A", "p", "i", "B", "a", "s", "e", "U", "r", "l", "s">>
    ELSE IF name = "corsOrigins"
        THEN <<"c", "o", "r", "s", "O", "r", "i", "g", "i", "n", "s">>
    ELSE IF name = "labels"
        THEN <<"l", "a", "b", "e", "l", "s">>
    ELSE IF name = "viteIamUrl"
        THEN <<"v", "i", "t", "e", "I", "a", "m", "U", "r", "l">>
    ELSE IF name = "systemId"
        THEN <<"s", "y", "s", "t", "e", "m", "I", "d">>
    ELSE IF name = "systemType"
        THEN <<"s", "y", "s", "t", "e", "m", "T", "y", "p", "e">>
    ELSE IF name = "componentId"
        THEN <<"c", "o", "m", "p", "o", "n", "e", "n", "t", "I", "d">>
    ELSE IF name = "componentType"
        THEN <<"c", "o", "m", "p", "o", "n", "e", "n", "t", "T", "y", "p", "e">>
    ELSE IF name = "environment"
        THEN <<"e", "n", "v", "i", "r", "o", "n", "m", "e", "n", "t">>
    ELSE IF name = "apiBaseUrl"
        THEN <<"a", "p", "i", "B", "a", "s", "e", "U", "r", "l">>
    ELSE IF name = "iam"
        THEN <<"i", "a", "m">>
    ELSE IF name = "config"
        THEN <<"c", "o", "n", "f", "i", "g">>
    ELSE IF name = "c1"
        THEN <<"c", "1">>
    ELSE IF name = "-o"
        THEN <<"-", "o">>
    ELSE IF name = "--output"
        THEN <<"-", "-", "o", "u", "t", "p", "u", "t">>
    ELSE IF name = "out.env"
        THEN <<"o", "u", "t", ".", "e", "n", "v">>
    ELSE IF name = "--validate"
        THEN <<"-", "-", "v", "a", "l", "i", "d", "a", "t", "e">>
    ELSE IF name = "--help"
        THEN <<"-", "-", "h", "e", "l", "p">>
    ELSE IF name = "-h"
        THEN <<"-", "h">>
    ELSE IF name = "cfg"
        THEN <<"c", "f", "g">>
    ELSE <<>>

\* the variable name of a field of the model
EnvKey(name) == Text(toEnvVarName(Spelling(name)))

\* letters that field names are drawn from
NameLetters == {"a", "p", "1", "U", "R", "L"}

\* names of the source's comments and documents
ExampleKeys ==
    {Spelling("mariadbHost"), Spelling("mariadbSslEnabled"), <<"a", "p", "i", "U", "R", "L">>}

InitEnvName ==
    /\ pc = "start"
    /\ \/ \E n \in 0..MaxNameLen : \E key \in [1..n -> NameLetters] : options = [key |-> key]
       \/ \E key \in ExampleKeys : options = [key |-> key]
    /\ deployment = NoRecord
    /\ normalized = NoRecord
    /\ config = NoConfig
    /\ env = NoEnv
    /\ result = NoResult

\* one call toEnvVarName(key)
ToEnvVarName ==
    /\ pc = "start"
    /\ pc' = "named"
    /\ result' = toEnvVarName(options.key)
    /\ UNCHANGED <<config, deployment, normalized, options, env>>

NextEnvName == ToEnvVarName

SpecEnvName == InitEnvName /\ [][NextEnvName]_vars

\* an uppercase letter that follows a character which is not one
RunBegins(key, i) == i > 1 /\ IsUpper(key[i]) /\ ~IsUpper(key[i - 1])

RECURSIVE AtRunBoundaries(_, _)
\* the name upper-cased, one underscore before each internal run of capitals
AtRunBoundaries(key, i) ==
    IF i > Len(key) THEN <<>>
    ELSE (IF RunBegins(key, i) THEN <<"_">> ELSE <<>>)
         \o <<ToUpperCase(key[i])>> \o AtRunBoundaries(key, i + 1)

(***************************************************************************)
(* C17: the variable name of a field is the field name in upper case with  *)
(* exactly one underscore before each internal run of capitals, so that a  *)
(* run of capitals stays one token (apiURL gives API_URL), and a name that *)
(* begins with a capital gets no leading underscore.                       *)
(***************************************************************************)
C17_RunBoundaries ==
    pc = "named" =>
        /\ result = AtRunBoundaries(options.key, 1)
        /\ (options.key # <<>> /\ IsUpper(options.key[1])) => result[1] # "_"

(***************************************************************************)
(* Extraction: bin/extract-config.ts, extractEnvVars.  A deployment record *)
(* may hold objects and arrays; an object is the sequence of its entries   *)
(* <<key, value>> in the order of the file.  The record itself is read     *)
(* through Object.entries, so it comes with the sequence of its keys.      *)
(***************************************************************************)
JObj(entries) == [t |-> "object", s |-> "", n |-> 0, entries |-> entries]
JArr(items) == [t |-> "array", s |-> "", n |-> 0, items |-> items]

RECURSIVE String(_)
RECURSIVE JoinStrings(_)
\* Array.prototype.join(','), on the string forms of the items
JoinStrings(items) ==
    IF items = <<>> THEN ""
    ELSE (IF Head(items).t \in {"null", "undefined"} THEN "" ELSE String(Head(items)))
         \o (IF Len(items) > 1 THEN "," ELSE "") \o JoinStrings(Tail(items))

\* the JavaScript conversion String(value)
String(v) ==
    IF v.t = "string" THEN v.s
    ELSE IF v.t = "number" THEN ToString(v.n)
    ELSE IF v.t = "boolean" THEN (IF v.n = 1 THEN "true" ELSE "false")
    ELSE IF v.t = "object" THEN "[object Object]"
    ELSE IF v.t = "array" THEN JoinStrings(v.items)
    ELSE v.t

RECURSIVE JSON_stringify(_)
RECURSIVE StringifyEntries(_)
RECURSIVE StringifyItems(_)
\* the members of an object, "key":value, separated by commas
StringifyEntries(entries) ==
    IF entries = <<>> THEN ""
    ELSE "\"" \o Head(entries)[1] \o "\":" \o JSON_stringify(Head(entries)[2])
         \o (IF Len(entries) > 1 THEN "," ELSE "") \o StringifyEntries(Tail(entries))

\* the elements of an array, separated by commas
StringifyItems(items) ==
    IF items = <<>> THEN ""
    ELSE JSON_stringify(Head(items))
         \o (IF Len(items) > 1 THEN "," ELSE "") \o StringifyItems(Tail(items))

\* JSON.stringify(value) without indentation, for values whose strings need
\* no escaping
JSON_stringify(v) ==
    IF v.t = "string" THEN "\"" \o v.s \o "\""
    ELSE IF v.t = "number" THEN ToString(v.n)
    ELSE IF v.t = "boolean" THEN (IF v.n = 1 THEN "true" ELSE "false")
    ELSE IF v.t = "object" THEN "{" \o StringifyEntries(v.entries) \o "}"
    ELSE IF v.t = "array" THEN "[" \o StringifyItems(v.items) \o "]"
    ELSE "null"

\* line 89
EXPANDABLE_FIELDS == {"moduleUrls", "moduleApiBaseUrls"}

\* lines 103-109: the variable of one entry of an expandable field
ExpandedKey(key, moduleKey) ==
    IF key = "moduleUrls"
    THEN "VITE_" \o Text(UpperCased(Spelling(moduleKey))) \o "_URL"
    ELSE "VITE_" \o Text(UpperCased(Spelling(moduleKey))) \o "_API_BASE_URL"

RECURSIVE ExpandEntries(_, _, _)
\* lines 100-112: for (const [moduleKey, moduleValue] of Object.entries(value))
ExpandEntries(envVars, key, entries) ==
    IF entries = <<>> THEN envVars
    ELSE ExpandEntries(Put(envVars, ExpandedKey(key, Head(entries)[1]), String(Head(entries)[2])),
                       key, Tail(entries))

\* a null value is written out like any other
ExtractEntry_keepsNull(envVars, key, value) ==
    IF value.t = "undefined" THEN envVars
    ELSE IF value.t \in {"object", "array"}
    THEN IF key \in EXPANDABLE_FIELDS /\ value.t = "object"
         THEN ExpandEntries(envVars, key, value.entries)
         ELSE Put(envVars, EnvKey(key), JSON_stringify(value))
    ELSE Put(envVars, EnvKey(key), String(value))

\* an expandable field is written out as JSON like any other object
ExtractEntry_neverExpands(envVars, key, value) ==
    IF value.t \in {"null", "undefined"} THEN envVars
    ELSE IF value.t \in {"object", "array"}
    THEN Put(envVars, EnvKey(key), JSON_stringify(value))
    ELSE Put(envVars, EnvKey(key), String(value))

\* lines 93-122: the body of the loop over the fields
ExtractEntry(envVars, key, value) ==
    IF value.t \in {"null", "undefined"} THEN envVars
    ELSE IF value.t \in {"object", "array"}
    THEN IF key \in EXPANDABLE_FIELDS /\ value.t = "object"
         THEN ExpandEntries(envVars, key, value.entries)
         ELSE Put(envVars, EnvKey(key), JSON_stringify(value))
    ELSE IF value.t = "boolean"
    THEN Put(envVars, EnvKey(key), IF value.n = 1 THEN "true" ELSE "false")
    ELSE Put(envVars, EnvKey(key), String(value))

RECURSIVE ExtractEntries(_, _, _)
\* line 92: for (const [key, value] of Object.entries(deployment))
ExtractEntries(envVars, keys, dep) ==
    IF keys = <<>> THEN envVars
    ELSE ExtractEntries(ExtractEntry(envVars, Head(keys), dep[Head(keys)]), Tail(keys), dep)

\* no variable yet
NoVars == [k \in {} |-> ""]

\* lines 85-126, the record given with its keys in the order of Object.entries
extractEnvVars(keys, dep) == ExtractEntries(NoVars, keys, dep)

(***************************************************************************)
(* Extraction: validateRequiredParams and extractConfig.                   *)
(***************************************************************************)
\* line 180: the deprecated fields that extraction looks for
deprecatedFields ==
    <<"postgresHost", "postgresPort", "postgresUser", "postgresPassword", "postgresDb",
      "mysqlHost", "mysqlPort", "mysqlUser", "mysqlPassword", "mysqlDatabase",
      "mariadbDb", "corsOrigins">>

RECURSIVE DeprecatedWarnings(_, _)
\* lines 186-190: one warning for each deprecated field, from the k-th on
DeprecatedWarnings(dep, k) ==
    IF k > Len(deprecatedFields) THEN <<>>
    ELSE PushIf(Get(dep, deprecatedFields[k]) # Undefined,
                "WARN: Deprecated field '" \o deprecatedFields[k]
                  \o "' found. Please migrate to standard field name.")
         \o DeprecatedWarnings(dep, k + 1)

\* a missing password is not reported
MariadbWarnings_withoutPassword(dep) ==
    LET Missing(field) ==
            PushIf(~Truthy(Get(dep, field)),
                   "WARN: " \o field \o " is missing but other DB fields present")
    IN  IF \/ Truthy(Get(dep, "mariadbHost"))
           \/ Truthy(Get(dep, "mariadbPort"))
           \/ Truthy(Get(dep, "mariadbUser"))
        THEN Missing("mariadbHost") \o Missing("mariadbPort") \o Missing("mariadbUser")
             \o Missing("mariadbDatabase")
        ELSE <<>>

\* lines 143-150: any of host, port, user asks for all the MariaDB fields
MariadbWarnings(dep) ==
    LET Missing(field) ==
            PushIf(~Truthy(Get(dep, field)),
                   "WARN: " \o field \o " is missing but other DB fields present")
    IN  IF \/ Truthy(Get(dep, "mariadbHost"))
           \/ Truthy(Get(dep, "mariadbPort"))
           \/ Truthy(Get(dep, "mariadbUser"))
        THEN Missing("mariadbHost") \o Missing("mariadbPort") \o Missing("mariadbUser")
             \o Missing("mariadbPassword") \o Missing("mariadbDatabase")
        ELSE <<>>

\* lines 152-191: the rules gated on a truthy databaseUsageMode
DatabaseUsageWarnings(dep) ==
    LET mode == Get(dep, "databaseUsageMode")
        hasDirectMariadbConnection ==
            /\ Truthy(Get(dep, "mariadbHost"))
            /\ Truthy(Get(dep, "mariadbPort"))
            /\ Truthy(Get(dep, "mariadbUser"))
            /\ Truthy(Get(dep, "mariadbDatabase"))
        hasDbFields ==
            \E f \in {"localDatabaseUrl", "sharedDatabaseDeploymentKey", "mariadbHost",
                      "mariadbPort", "mariadbUser", "mariadbPassword", "mariadbDatabase"} :
                Truthy(Get(dep, f))
    IN  IF ~Truthy(mode) THEN <<>>
        ELSE PushIf(mode \notin {JStr("LOCAL"), JStr("SHARED"), JStr("NONE")},
                    "WARN: Invalid databaseUsageMode '" \o String(mode)
                      \o "'. Must be LOCAL, SHARED, or NONE")
          \o PushIf(mode = JStr("LOCAL") /\ ~Truthy(Get(dep, "localDatabaseUrl")),
                    "WARN: localDatabaseUrl is required for LOCAL usage mode")
          \o PushIf(/\ mode = JStr("SHARED")
                    /\ ~Truthy(Get(dep, "sharedDatabaseDeploymentKey"))
                    /\ ~hasDirectMariadbConnection,
                    "WARN: For SHARED usage mode, provide sharedDatabaseDeploymentKey OR provide direct MariaDB connection fields (mariadbHost/mariadbPort/mariadbUser/mariadbDatabase)")
          \o PushIf(mode = JStr("NONE") /\ hasDbFields,
                    "WARN: Database fields present but usage mode is NONE")

\* lines 131-193: the warnings of the selected component
validateRequiredParams(component, systemType) ==
    LET dep == normalizeDeploymentConfig(component.deployment)
    IN  PushIf(~Truthy(Get(dep, "port")), "WARN: Missing required parameter: deployment.port")
        \o (IF component.componentType = "AGENT"
            THEN MariadbWarnings(dep) \o DatabaseUsageWarnings(dep)
            ELSE <<>>)
        \o DeprecatedWarnings(dep, 1)

\* the keys of the normalized record in the order of Object.entries: those of
\* the spread copy, then the canonical fields in the order they were assigned
NormalizedKeys(keys, dep) ==
    LET Added(canonical) == canonical \in DOMAIN normalizeDeploymentConfig(dep) \ DOMAIN dep
    IN  keys \o SelectSeq([i \in DOMAIN AliasPairs |-> AliasPairs[i][2]], Added)

\* envVars.NAME read in a condition: undefined and '' are both falsy
Var(envVars, name) == IF name \in DOMAIN envVars THEN envVars[name] ELSE ""

\* one `if (envVars.<from> && !envVars.<to>) envVars.<to> = envVars.<from>`
AliasVar(envVars, from, to) ==
    IF Var(envVars, from) # "" /\ Var(envVars, to) = ""
    THEN Put(envVars, to, envVars[from])
    ELSE envVars

\* lines 238-253: the compatibility aliases of the legacy scripts
CompatibilityAliases(envVars) ==
    LET e1 == AliasVar(envVars, "LOCAL_DATABASE_URL", "DB_LOCAL_URL")
        e2 == AliasVar(e1, "SHARED_DATABASE_DEPLOYMENT_KEY", "DB_NETWORK_KEY")
        e3 == AliasVar(e2, "GITHUB_REPO", "REPO")
        e4 == AliasVar(e3, "GITHUB_BRANCH", "BRANCH")
        e5 == AliasVar(e4, "GITHUB_COMMIT", "COMMIT")
    IN  e5

\* the four identifying variables are set only when the record gave none
Metadata_keepsFields(envVars, cfg, found, component) ==
    LET Default(e, name, value) == IF name \in DOMAIN e THEN e ELSE Put(e, name, value)
        e1 == Default(envVars, "SYSTEM_ID", found.systemId)
        e2 == Default(e1, "SYSTEM_TYPE", found.systemType)
        e3 == Default(e2, "COMPONENT_ID", component.componentId)
        e4 == Default(e3, "COMPONENT_TYPE", component.componentType)
        e5 == IF Truthy(cfg.version) THEN Put(e4, "INFRA_CONFIG_VERSION", String(cfg.version)) ELSE e4
        e6 == IF cfg.environment # ""
              THEN Put(Put(e5, "INFRA_ENVIRONMENT", cfg.environment), "ENVIRONMENT", cfg.environment)
              ELSE e5
    IN  e6

\* lines 255-266: the metadata of the selected component and of the document
Metadata(envVars, cfg, found, component) ==
    LET e1 == Put(envVars, "SYSTEM_ID", found.systemId)
        e2 == Put(e1, "SYSTEM_TYPE", found.systemType)
        e3 == Put(e2, "COMPONENT_ID", component.componentId)
        e4 == Put(e3, "COMPONENT_TYPE", component.componentType)
        e5 == IF Truthy(cfg.version) THEN Put(e4, "INFRA_CONFIG_VERSION", String(cfg.version)) ELSE e4
        e6 == IF cfg.environment # ""
              THEN Put(Put(e5, "INFRA_ENVIRONMENT", cfg.environment), "ENVIRONMENT", cfg.environment)
              ELSE e5
    IN  e6

\* a thrown Error of extractConfig
Failed(error) ==
    [kind |-> "error", error |-> error, componentId |-> "", systemId |-> "", systemType |-> "",
     componentType |-> "", endpoint |-> "", envVars |-> NoVars, warnings |-> <<>>]

\* lines 273-281: the returned ExtractedConfig
Extracted(found, component, envVars, warnings) ==
    [kind |-> "ok", error |-> "", componentId |-> component.componentId,
     systemId |-> found.systemId, systemType |-> found.systemType,
     componentType |-> component.componentType, endpoint |-> component.endpoint,
     envVars |-> envVars, warnings |-> warnings]

\* lines 212-282: extractConfig(options) under an environment, cfg being what
\* is found at options.configPath
extractConfig(cfg, o, e) ==
    IF cfg.kind = "absent" THEN Failed("Configuration file not found")
    ELSE IF cfg.kind = "malformed" THEN Failed("Failed to parse infra-config.json")
    ELSE IF cfg.kind = "null" THEN Failed("TypeError")
    ELSE LET found == discoverComponent(cfg, o, e)
         IN  IF found.kind = "error" THEN Failed(found.error)
             ELSE LET component == cfg.systems[found.si].components[found.ci]
                      deployment_ == normalizeDeploymentConfig(component.deployment)
                      warnings == validateRequiredParams(component, found.systemType)
                      envVars == extractEnvVars(NormalizedKeys(component.keys, component.deployment),
                                                deployment_)
                      withMetadata == Metadata(CompatibilityAliases(envVars), cfg, found, component)
                  IN  Extracted(found, component,
                                AliasVar(withMetadata, "OIDC_REDIRECT_URI", "OIDC_GUI_REDIRECT_URIS"),
                                warnings)

(***************************************************************************)
(* Inputs of extractEnvVars: records of up to MaxFields fields, in any     *)
(* order, over scalars, null, an array, flat mappings under the two        *)
(* expandable fields and under another field, and names that share a       *)
(* variable name.  The record is held with the order of its keys.          *)
(***************************************************************************)
EnvVarFields ==
    << <<"port", JNum(4001)>>,
       <<"Port", JStr("8080")>>,
       <<"mariadbHost", JStr("db")>>,
       <<"mariadbSslEnabled", JBool(TRUE)>>,
       <<"cookieSecure", JBool(FALSE)>>,
       <<"mariadbPassword", JNull>>,
       <<"corsOrigins", JArr(<<JStr("http://a"), JStr("http://b")>>)>>,
       <<"labels", JObj(<< <<"tier", JStr("db")>>, <<"replicas", JNum(2)>> >>)>>,
       <<"moduleUrls", JObj(<< <<"iam", JStr("http://x")>>, <<"config", JStr("http://y")>> >>)>>,
       <<"moduleUrls", JArr(<<JStr("http://x")>>)>>,
       <<"moduleApiBaseUrls", JObj(<< <<"iam", JStr("http://x/api")>> >>)>>,
       <<"viteIamUrl", JStr("http://other")>> >>

\* the record of the chosen fields, with its keys in the order chosen
OrderedRecord(fields, chosen) ==
    [keys |-> [i \in DOMAIN chosen |-> fields[chosen[i]][1]],
     fields |-> [k \in {fields[chosen[i]][1] : i \in DOMAIN chosen} |->
                    fields[CHOOSE j \in {chosen[i] : i \in DOMAIN chosen} : fields[j][1] = k][2]]]

\* no key is chosen twice
DistinctKeys(fields, chosen) ==
    \A i, j \in DOMAIN chosen : i # j => fields[chosen[i]][1] # fields[chosen[j]][1]

InitEnvVars ==
    /\ pc = "start"
    /\ \E n \in 0..MaxFields : \E chosen \in [1..n -> DOMAIN EnvVarFields] :
        /\ DistinctKeys(EnvVarFields, chosen)
        /\ deployment = OrderedRecord(EnvVarFields, chosen)
    /\ normalized = NoRecord
    /\ config = NoConfig
    /\ options = NoOptions
    /\ env = NoEnv
    /\ result = NoResult

\* one call extractEnvVars(deployment)
ExtractEnvVars ==
    /\ pc = "start"
    /\ pc' = "extracted"
    /\ result' = extractEnvVars(deployment.keys, deployment.fields)
    /\ UNCHANGED <<config, deployment, normalized, options, env>>

NextEnvVars == ExtractEnvVars

SpecEnvVars == InitEnvVars /\ [][NextEnvVars]_vars

\* the string the claims give for a value
ClaimedString(v) ==
    IF v.t = "boolean" THEN (IF v.n = 1 THEN "true" ELSE "false")
    ELSE IF v.t = "number" THEN ToString(v.n)
    ELSE IF v.t = "string" THEN v.s
    ELSE JSON_stringify(v)

\* the fields of the record that hold a flat mapping to expand
Expanded(fields) == {k \in DOMAIN fields \cap EXPANDABLE_FIELDS : fields[k].t = "object"}

\* the variables that the entries of the expanded fields are written to
ExpandedKeys(fields) ==
    UNION {{ExpandedKey(k, fields[k].entries[i][1]) : i \in DOMAIN fields[k].entries} :
                k \in Expanded(fields)}

\* the fields that are written out under their own variable
Plain(fields) == {k \in DOMAIN fields \ Expanded(fields) : fields[k].t # "null"}

\* no other field and no expanded entry is written to the variable of field k
OwnVariable(fields, k) ==
    /\ \A other \in Plain(fields) \ {k} : EnvKey(other) # EnvKey(k)
    /\ EnvKey(k) \notin ExpandedKeys(fields)

(***************************************************************************)
(* C18, as claimed: the variables hold, for every field of the record      *)
(* other than moduleUrls and moduleApiBaseUrls, the variable named by the  *)
(* name transform, null-valued fields included, and its value is 'true' or *)
(* 'false' for a boolean, the string form of a number or a string, and the *)
(* compact JSON of an object or an array; so no field loses its value to   *)
(* another.                                                                *)
(***************************************************************************)
C18_EveryFieldWritten ==
    pc = "extracted" =>
        \A k \in DOMAIN deployment.fields \ EXPANDABLE_FIELDS :
            /\ EnvKey(k) \in DOMAIN result
            /\ deployment.fields[k].t # "null" =>
                result[EnvKey(k)] = ClaimedString(deployment.fields[k])

(***************************************************************************)
(* C18, amended: a field whose value is null is skipped.  Every other      *)
(* field, but for a flat mapping under moduleUrls or moduleApiBaseUrls,    *)
(* has the variable named by the name transform; the variable holds the    *)
(* claimed string of the field unless another field or an expanded entry   *)
(* is written to the same variable; and the variables are those of these   *)
(* fields and of the expanded entries, no others.                          *)
(***************************************************************************)
C18_NonNullFieldsWritten ==
    pc = "extracted" =>
        /\ DOMAIN result = {EnvKey(k) : k \in Plain(deployment.fields)}
                             \cup ExpandedKeys(deployment.fields)
        /\ \A k \in Plain(deployment.fields) :
            OwnVariable(deployment.fields, k) =>
                result[EnvKey(k)] = ClaimedString(deployment.fields[k])

\* a null password beside a boolean and a number: two variables
C18_Witness ==
    /\ pc = "extracted"
    /\ deployment.keys = <<"mariadbSslEnabled", "mariadbPassword", "port">>
    /\ result = [k \in {"MARIADB_SSL_ENABLED", "PORT"} |->
                    IF k = "PORT" THEN "4001" ELSE "true"]

\* an array and an object that is not expanded, as compact JSON
C18_WitnessJson ==
    /\ pc = "extracted"
    /\ deployment.keys = <<"labels", "corsOrigins">>
    /\ result["LABELS"] = "{\"tier\":\"db\",\"replicas\":2}"
    /\ result["CORS_ORIGINS"] = "[\"http://a\",\"http://b\"]"

\* port and Port share the variable PORT: the one written last stays
C18_WitnessSharedName ==
    /\ pc = "extracted"
    /\ deployment.keys = <<"Port", "port">>
    /\ result = [k \in {"PORT"} |-> "4001"]

\* no field of the record is written under the name of an expanded entry
NoPlainRival(fields, variable) == \A k \in Plain(fields) : EnvKey(k) # variable

(***************************************************************************)
(* C19: when moduleUrls (moduleApiBaseUrls) holds a flat mapping, every    *)
(* inner key k has the variable VITE_<K>_URL (VITE_<K>_API_BASE_URL), K    *)
(* being k in upper case; the variable holds the string form of the inner  *)
(* value when no field of the record is written under that name; and       *)
(* there is no variable MODULE_URLS (MODULE_API_BASE_URLS).  So moduleUrls *)
(* {"iam": "http://x", "config": "http://y"} gives VITE_IAM_URL=http://x   *)
(* and VITE_CONFIG_URL=http://y.                                           *)
(***************************************************************************)
C19_ModulesExpanded ==
    pc = "extracted" =>
        LET fields == deployment.fields
        IN  /\ \A g \in Expanded(fields) :
                /\ \A i \in DOMAIN fields[g].entries :
                    LET variable ==
                            "VITE_" \o Text(UpperCased(Spelling(fields[g].entries[i][1])))
                              \o (IF g = "moduleUrls" THEN "_URL" ELSE "_API_BASE_URL")
                    IN  /\ variable \in DOMAIN result
                        /\ NoPlainRival(fields, variable) =>
                            result[variable] = String(fields[g].entries[i][2])
                /\ (IF g = "moduleUrls" THEN "MODULE_URLS" ELSE "MODULE_API_BASE_URLS")
                     \notin DOMAIN result
            /\ ("moduleUrls" \in Expanded(fields) /\ "viteIamUrl" \notin DOMAIN fields) =>
                /\ result["VITE_IAM_URL"] = "http://x"
                /\ result["VITE_CONFIG_URL"] = "http://y"
            /\ "moduleApiBaseUrls" \in Expanded(fields) =>
                result["VITE_IAM_API_BASE_URL"] = "http://x/api"

\* both mappings in one record: three variables and no other
C19_Witness ==
    /\ pc = "extracted"
    /\ deployment.keys = <<"moduleApiBaseUrls", "moduleUrls">>
    /\ DOMAIN result = {"VITE_IAM_URL", "VITE_CONFIG_URL", "VITE_IAM_API_BASE_URL"}
    /\ result["VITE_IAM_URL"] = "http://x"
    /\ result["VITE_IAM_API_BASE_URL"] = "http://x/api"

(***************************************************************************)
(* Inputs of extractConfig.  A Component of these documents carries the    *)
(* order of the keys of its deployment record and its endpoint; a document *)
(* carries version (undefined when absent) and environment ("" when        *)
(* absent).                                                                *)
(* Discovery documents vary the place of the selected Component; field     *)
(* documents hold one Component and vary its deployment record.            *)
(***************************************************************************)
ExtractComponent(id, type, enabled, hasDep, ordered, endpoint) ==
    Component(id, type, enabled, hasDep, ordered.fields)
        @@ [keys |-> ordered.keys, endpoint |-> endpoint]

ExtractDocument(version, environment, hasSystems, systems) ==
    Document("1.0", hasSystems, systems) @@ [version |-> version, environment |-> environment]

ExtractFields ==
    << <<"port", JNum(4001)>>,
       <<"systemId", JStr("rogue-system")>>,
       <<"systemType", JStr("rogue-type")>>,
       <<"componentId", JStr("rogue-component")>>,
       <<"componentType", JStr("rogue-kind")>>,
       <<"localDatabaseUrl", JStr("mysql://db")>>,
       <<"dbLocalUrl", JStr("mysql://old")>>,
       <<"repo", JStr("org/app")>>,
       <<"oidcRedirectUri", JStr("http://cb")>>,
       <<"localDatabaseUrl", JStr("")>>,
       <<"dbLocalUrl", JStr("")>> >>

\* a Component with a port, a disabled one whose record names a systemId of
\* its own, and one without a deployment object
ExtractComponents ==
    {ExtractComponent("c1", "AGENT", "absent", TRUE, OrderedRecord(ExtractFields, <<1>>), ""),
     ExtractComponent("c1", "AGENT", "false", TRUE, OrderedRecord(ExtractFields, <<2, 1>>),
                      "http://c1"),
     ExtractComponent("c2", "WEB", "true", FALSE, OrderedRecord(ExtractFields, <<>>), "")}

\* the hints of a call: options and environment
ExtractHints ==
    {<<NoOptions, NoEnv>>,
     <<[NoOptions EXCEPT !.componentId = "c1"], NoEnv>>,
     <<NoOptions, [NoEnv EXCEPT !.TARGET_COMPONENT_ID = "c2"]>>,
     <<[NoOptions EXCEPT !.systemId = "s2"], [NoEnv EXCEPT !.COMPONENT_ID = "c1"]>>,
     <<[NoOptions EXCEPT !.systemId = "s2"], NoEnv>>,
     <<[NoOptions EXCEPT !.componentId = "c9"], NoEnv>>}

\* version and environment of the document: both absent, both there, and a
\* version that is the number 0
DocumentHeads == {<<Undefined, "">>, <<JNum(3), "prod">>, <<JNum(0), "prod">>}

\* the fields of the end-to-end example, in the order of its record
EndToEndFields ==
    << <<"port", JNum(4001)>>,
       <<"mariadbHost", MariadbValues.mariadbHost>>,
       <<"mariadbPort", MariadbValues.mariadbPort>>,
       <<"mariadbUser", MariadbValues.mariadbUser>>,
       <<"mariadbPassword", MariadbValues.mariadbPassword>>,
       <<"mariadbDatabase", MariadbValues.mariadbDatabase>> >>

\* the componentId hint of the example, as an option or in the environment
EndToEndHints ==
    {<<[NoOptions EXCEPT !.componentId = "comp-a"], NoEnv>>,
     <<NoOptions, [NoEnv EXCEPT !.COMPONENT_ID = "comp-a"]>>}

\* the document of the example: one System holding one AGENT Component
EndToEndDocument(head, ordered) ==
    ExtractDocument(head[1], head[2], TRUE,
                    <<System("sys-a", "IAM", TRUE,
                             <<ExtractComponent("comp-a", "AGENT", "absent", TRUE, ordered, "")>>)>>)

InitExtract ==
    /\ pc = "start"
    /\ \/ /\ config \in {FileState("absent"), FileState("malformed"), FileState("null"),
                         ExtractDocument(JNum(3), "prod", FALSE, <<>>)}
          /\ options = NoOptions
          /\ env = NoEnv
       \/ \E shape \in Shapes(MaxSystems, MaxComponents), hints \in ExtractHints :
            \E heads \in [DOMAIN shape -> DiscoverSystemHeads],
               comps \in [1..Sum(shape) -> ExtractComponents] :
                /\ config = ExtractDocument(JNum(3), "prod", TRUE,
                              [i \in DOMAIN shape |->
                                  System(heads[i][1], heads[i][2], TRUE,
                                         ComponentsOf(shape, comps, i))])
                /\ options = hints[1]
                /\ env = hints[2]
       \/ \E n \in 0..MaxFields, head \in DocumentHeads :
            \E chosen \in [1..n -> DOMAIN ExtractFields] :
                /\ DistinctKeys(ExtractFields, chosen)
                /\ config = ExtractDocument(head[1], head[2], TRUE,
                              <<System("s1", "IAM", TRUE,
                                       <<ExtractComponent("c1", "AGENT", "absent", TRUE,
                                                          OrderedRecord(ExtractFields, chosen),
                                                          "")>>)>>)
                /\ options = NoOptions
                /\ env = NoEnv
       \/ \E n \in 1..Len(EndToEndFields), head \in DocumentHeads, hints \in EndToEndHints :
            \E chosen \in [1..n -> DOMAIN EndToEndFields] :
                /\ chosen[1] = 1
                /\ \A i \in 1..(n - 1) : chosen[i] < chosen[i + 1]
                /\ config = EndToEndDocument(head, OrderedRecord(EndToEndFields, chosen))
                /\ options = hints[1]
                /\ env = hints[2]
    /\ deployment = NoRecord
    /\ normalized = NoRecord
    /\ result = NoResult

\* one call extractConfig(options)
Extract ==
    /\ pc = "start"
    /\ pc' = "extracted"
    /\ result' = extractConfig(config, options, env)
    /\ UNCHANGED <<config, deployment, normalized, options, env>>

(***************************************************************************)
(* The compiled extractor, dist/bin/extract-config.js: the file the npm    *)
(* scripts run.  Its discoverComponent, toEnvVarName and extractEnvVars    *)
(* are those of the source; its validateRequiredParams and extractConfig   *)
(* read the record as it is written, without normalizeDeploymentConfig.    *)
(***************************************************************************)
\* dist lines 180-202: the rules gated on a truthy databaseUsageMode
dist_DatabaseUsageWarnings(dep) ==
    LET mode == Get(dep, "databaseUsageMode")
    IN  IF ~Truthy(mode) THEN <<>>
        ELSE PushIf(mode \notin {JStr("LOCAL"), JStr("SHARED"), JStr("NONE")},
                    "WARN: Invalid databaseUsageMode '" \o String(mode)
                      \o "'. Must be LOCAL, SHARED, or NONE")
          \o PushIf(mode = JStr("LOCAL") /\ ~Truthy(Get(dep, "dbLocalUrl")),
                    "WARN: dbLocalUrl is required for LOCAL usage mode")
          \o PushIf(mode = JStr("LOCAL") /\ ~Truthy(Get(dep, "dbNetworkKey")),
                    "WARN: dbNetworkKey is required for LOCAL usage mode")
          \o PushIf(mode = JStr("SHARED") /\ ~Truthy(Get(dep, "dbNetworkKey")),
                    "WARN: dbNetworkKey is required for SHARED usage mode")
          \o PushIf(mode = JStr("SHARED") /\ Truthy(Get(dep, "dbLocalUrl")),
                    "WARN: dbLocalUrl must not be defined for SHARED usage mode")
          \o PushIf(/\ mode = JStr("NONE")
                    /\ Truthy(Get(dep, "dbLocalUrl")) \/ Truthy(Get(dep, "dbNetworkKey")),
                    "WARN: Database fields present but usage mode is NONE")

\* dist lines 156-216: the warnings of a Component that has a deployment
dist_validateRequiredParams(component, systemType) ==
    LET dep == component.deployment
    IN  PushIf(~Truthy(Get(dep, "port")), "WARN: Missing required parameter: deployment.port")
        \o (IF component.componentType = "AGENT"
            THEN MariadbWarnings(dep) \o dist_DatabaseUsageWarnings(dep)
            ELSE <<>>)
        \o DeprecatedWarnings(dep, 1)

\* dist lines 220-264: extractConfig(options); reading deployment.port of a
\* Component without deployment throws a TypeError
dist_extractConfig(cfg, o, e) ==
    IF cfg.kind = "absent" THEN Failed("Configuration file not found")
    ELSE IF cfg.kind = "malformed" THEN Failed("Failed to parse infra-config.json")
    ELSE IF cfg.kind = "null" THEN Failed("TypeError")
    ELSE LET found == discoverComponent(cfg, o, e)
         IN  IF found.kind = "error" THEN Failed(found.error)
             ELSE LET component == cfg.systems[found.si].components[found.ci]
                  IN  IF ~component.hasDeployment THEN Failed("TypeError")
                      ELSE Extracted(found, component,
                             AliasVar(Metadata(extractEnvVars(component.keys, component.deployment),
                                               cfg, found, component),
                                      "OIDC_REDIRECT_URI", "OIDC_GUI_REDIRECT_URIS"),
                             dist_validateRequiredParams(component, found.systemType))

\* node dist/bin/extract-config.js, the call of its extractConfig
ExtractCompiled ==
    /\ pc = "start"
    /\ pc' = "extracted by dist"
    /\ result' = dist_extractConfig(config, options, env)
    /\ UNCHANGED <<config, deployment, normalized, options, env>>

NextExtract == Extract \/ ExtractCompiled

SpecExtract == InitExtract /\ [][NextExtract]_vars

(***************************************************************************)
(* C20: in every successful result of extractConfig the variables          *)
(* SYSTEM_ID, SYSTEM_TYPE, COMPONENT_ID, COMPONENT_TYPE are the systemId   *)
(* and systemType of the System that holds the selected Component and the  *)
(* componentId and componentType of that Component, whatever fields the    *)
(* deployment record has (systemId, systemType, componentId, componentType *)
(* and the aliased fields included), and they are equal to the fields      *)
(* systemId, systemType, componentId, componentType of the result.         *)
(***************************************************************************)
C20_MetadataOverwrites ==
    (pc = "extracted" /\ result.kind = "ok") =>
        LET found == discoverComponent(config, options, env)
            system == config.systems[found.si]
            component == system.components[found.ci]
        IN  /\ result.envVars["SYSTEM_ID"] = system.systemId
            /\ result.envVars["SYSTEM_TYPE"] = system.systemType
            /\ result.envVars["COMPONENT_ID"] = component.componentId
            /\ result.envVars["COMPONENT_TYPE"] = component.componentType
            /\ result.systemId = result.envVars["SYSTEM_ID"]
            /\ result.systemType = result.envVars["SYSTEM_TYPE"]
            /\ result.componentId = result.envVars["COMPONENT_ID"]
            /\ result.componentType = result.envVars["COMPONENT_TYPE"]

\* the record names a systemId and a componentType of its own, after its
\* other fields, and the variables are still those of the document
C20_Witness ==
    /\ pc = "extracted"
    /\ result.kind = "ok"
    /\ Len(config.systems) = 1
    /\ config.systems[1].components[1].keys = <<"dbLocalUrl", "systemId", "componentType">>
    /\ result.envVars["SYSTEM_ID"] = "s1"
    /\ result.envVars["COMPONENT_TYPE"] = "AGENT"
    /\ result.envVars["DB_LOCAL_URL"] = "mysql://old"

\* the selected Component is in the second System, found by both hints
C20_WitnessSecondSystem ==
    /\ pc = "extracted"
    /\ result.kind = "ok"
    /\ Len(config.systems) = 2
    /\ config.systems[1].systemId = "s1"
    /\ options.systemId = "s2"
    /\ env.COMPONENT_ID = "c1"
    /\ "systemId" \in DOMAIN config.systems[2].components[1].deployment
    /\ result.envVars["SYSTEM_ID"] = "s2"
    /\ result.envVars["SYSTEM_TYPE"] = "ERP"

(***************************************************************************)
(* C21: in a successful result, for a deployment record none of whose      *)
(* fields is written to these variables, INFRA_CONFIG_VERSION is there     *)
(* exactly when the document has a version, the number 0 included, and is  *)
(* its string form; INFRA_ENVIRONMENT is there exactly when the document   *)
(* has an environment, and then INFRA_ENVIRONMENT and ENVIRONMENT are both *)
(* that label.                                                             *)
(***************************************************************************)
C21_VersionAndEnvironment ==
    (pc = "extracted" /\ result.kind = "ok") =>
        /\ "INFRA_CONFIG_VERSION" \in DOMAIN result.envVars <=> config.version # Undefined
        /\ config.version # Undefined =>
            Var(result.envVars, "INFRA_CONFIG_VERSION") = String(config.version)
        /\ "INFRA_ENVIRONMENT" \in DOMAIN result.envVars <=> config.environment # ""
        /\ config.environment # "" =>
            /\ Var(result.envVars, "INFRA_ENVIRONMENT") = config.environment
            /\ Var(result.envVars, "ENVIRONMENT") = config.environment

\* the Component that discovery selects for the call of the state
SelectedComponent ==
    LET found == discoverComponent(config, options, env)
    IN  config.systems[found.si].components[found.ci]

\* what the per-field transformation gives for the selected Component
PerField ==
    extractEnvVars(NormalizedKeys(SelectedComponent.keys, SelectedComponent.deployment),
                   normalizeDeploymentConfig(SelectedComponent.deployment))

\* the (new, old) names of the compatibility variables
CompatibilityPairs ==
    {<<"LOCAL_DATABASE_URL", "DB_LOCAL_URL">>,
     <<"SHARED_DATABASE_DEPLOYMENT_KEY", "DB_NETWORK_KEY">>,
     <<"GITHUB_REPO", "REPO">>,
     <<"GITHUB_BRANCH", "BRANCH">>,
     <<"GITHUB_COMMIT", "COMMIT">>,
     <<"OIDC_REDIRECT_URI", "OIDC_GUI_REDIRECT_URIS">>}

(***************************************************************************)
(* C22: in a successful result, for each compatibility pair, when the      *)
(* per-field transformation gave the new-named variable the old-named      *)
(* variable is in the output; it has the value of the new-named variable   *)
(* when the per-field transformation gave no old-named variable, and the   *)
(* value the per-field transformation gave it otherwise, the empty string  *)
(* included.                                                               *)
(***************************************************************************)
C22_CompatibilityPairs ==
    (pc = "extracted" /\ result.kind = "ok") =>
        \A pair \in CompatibilityPairs :
            pair[1] \in DOMAIN PerField =>
                /\ pair[2] \in DOMAIN result.envVars
                /\ pair[2] \notin DOMAIN PerField =>
                    Var(result.envVars, pair[2]) = result.envVars[pair[1]]
                /\ pair[2] \in DOMAIN PerField =>
                    Var(result.envVars, pair[2]) = PerField[pair[2]]

\* the document of the state is the end-to-end example with these fields
EndToEndCase(fields) ==
    /\ pc = "extracted"
    /\ config.kind = "object"
    /\ Len(config.systems) = 1
    /\ config.systems[1].systemId = "sys-a"
    /\ Len(config.systems[1].components) = 1
    /\ config.systems[1].components[1].componentId = "comp-a"
    /\ DOMAIN config.systems[1].components[1].deployment = fields
    /\ TargetComponentId(options, env) = "comp-a"
    /\ TargetSystemId(options, env) = ""

(***************************************************************************)
(* C23: for the document of one System sys-a of type IAM holding the AGENT *)
(* Component comp-a whose record has port, mariadbHost, mariadbPort,       *)
(* mariadbUser, mariadbDatabase and no mariadbPassword, extractConfig with *)
(* the componentId hint comp-a and no systemId hint succeeds; the          *)
(* variables hold PORT, MARIADB_HOST, MARIADB_PORT, MARIADB_USER,          *)
(* MARIADB_DATABASE with the string forms of the values, COMPONENT_ID      *)
(* comp-a, SYSTEM_ID sys-a, SYSTEM_TYPE IAM, COMPONENT_TYPE AGENT; and the *)
(* warnings are the one warning of the missing password.                   *)
(***************************************************************************)
C23_EndToEnd ==
    EndToEndCase({"port", "mariadbHost", "mariadbPort", "mariadbUser", "mariadbDatabase"}) =>
        /\ result.kind = "ok"
        /\ Var(result.envVars, "PORT") = "4001"
        /\ Var(result.envVars, "MARIADB_HOST") = "db"
        /\ Var(result.envVars, "MARIADB_PORT") = "3306"
        /\ Var(result.envVars, "MARIADB_USER") = "app"
        /\ Var(result.envVars, "MARIADB_DATABASE") = "main"
        /\ Var(result.envVars, "COMPONENT_ID") = "comp-a"
        /\ Var(result.envVars, "SYSTEM_ID") = "sys-a"
        /\ Var(result.envVars, "SYSTEM_TYPE") = "IAM"
        /\ Var(result.envVars, "COMPONENT_TYPE") = "AGENT"
        /\ "MARIADB_PASSWORD" \notin DOMAIN result.envVars
        /\ result.warnings = <<"WARN: mariadbPassword is missing but other DB fields present">>

\* the example, with its hint in the environment
C23_Witness ==
    /\ EndToEndCase({"port", "mariadbHost", "mariadbPort", "mariadbUser", "mariadbDatabase"})
    /\ env.COMPONENT_ID = "comp-a"
    /\ result.kind = "ok"
    /\ Len(result.warnings) = 1
    /\ result.envVars["MARIADB_PORT"] = "3306"

(***************************************************************************)
(* C24: extractConfig fails, with no ExtractedConfig and no variables,     *)
(* when the file is missing, the document is malformed, the document has   *)
(* no systems, or the selected Component has no deployment object.         *)
(***************************************************************************)
C24_StructuralErrorsFatal ==
    (/\ pc = "extracted"
     /\ \/ config.kind \in {"absent", "malformed"}
        \/ config.kind = "object" /\ (~config.hasSystems \/ config.systems = <<>>)
        \/ /\ config.kind = "object"
           /\ discoverComponent(config, options, env).kind = "ok"
           /\ ~SelectedComponent.hasDeployment)
    =>
    /\ result.kind = "error"
    /\ result.envVars = NoVars

(***************************************************************************)
(* The command-line tools: main of bin/extract-config.ts and main of       *)
(* src/bin/validate-config.ts.  args is process.argv.slice(2); the file at *)
(* the path args[0] is the configuration of the state.  An outcome tells   *)
(* the exit code, what was printed on stdout and what was written to which *)
(* file; the lines of the output are given as the mapping they list in     *)
(* the order of the names.                                                 *)
(***************************************************************************)
\* most arguments on a command line
MaxArgs == 4

\* Array.prototype.includes
Includes(args, token) == \E i \in DOMAIN args : args[i] = token

\* Array.prototype.indexOf, counted from 0; -1 when the token is not there
IndexOf(args, token) ==
    IF Includes(args, token)
    THEN (CHOOSE i \in DOMAIN args : args[i] = token /\ \A j \in 1..(i - 1) : args[j] # token) - 1
    ELSE -1

\* args[i], counted from 0: '' stands for undefined
Arg(args, i) == IF i + 1 \in DOMAIN args THEN args[i + 1] ELSE ""

\* String.prototype.startsWith, the prefix given by its characters
StartsWith(token, prefix) ==
    /\ Len(Spelling(token)) >= Len(prefix)
    /\ SubSeq(Spelling(token), 1, Len(prefix)) = prefix

\* what a run of a tool leaves behind
Outcome(exit, stdout, path, written, call, extracted) ==
    [kind |-> "exited", exit |-> exit, stdout |-> stdout, path |-> path, written |-> written,
     call |-> call, extracted |-> extracted]

\* lines 290-320 of extract-config.ts, 288-299 of validate-config.ts
Usage == Outcome(0, "usage", "", NoVars, NoOptions, NoResult)

\* line 323: args[1] && !args[1].startsWith('--') ? args[1] : undefined
ComponentIdArg(args) ==
    IF Arg(args, 1) # "" /\ ~StartsWith(Arg(args, 1), <<"-", "-">>) THEN Arg(args, 1) ELSE ""

\* lines 325-326: the path that follows --output, or else -o
OutputPathArg(args) ==
    LET outputIndex ==
            IF IndexOf(args, "--output") >= 0 THEN IndexOf(args, "--output") ELSE IndexOf(args, "-o")
    IN  IF outputIndex >= 0 THEN Arg(args, outputIndex + 1) ELSE ""

\* lines 287-376 of extract-config.ts: main, cfg being the file at args[0]
extractMain(args, cfg, e) ==
    IF args = <<>> \/ Includes(args, "--help") \/ Includes(args, "-h") THEN Usage
    ELSE LET call == [componentId |-> ComponentIdArg(args), systemId |-> ""]
             extracted == extractConfig(cfg, call, e)
         IN  IF extracted.kind = "error" THEN Outcome(1, "", "", NoVars, call, extracted)
             ELSE IF Includes(args, "--validate")
             THEN Outcome(0, "", "", NoVars, call, extracted)
             ELSE IF OutputPathArg(args) # ""
             THEN Outcome(0, "", OutputPathArg(args), extracted.envVars, call, extracted)
             ELSE Outcome(0, "env", "", extracted.envVars, call, extracted)

\* lines 285-337 of validate-config.ts: main, cfg being the file at args[0];
\* an exception that nothing catches ends the process with code 1
validateMain(args, cfg) ==
    IF args = <<>> \/ Includes(args, "--help") \/ Includes(args, "-h") THEN Usage
    ELSE LET validated == validate(cfg)
         IN  IF validated.kind = "thrown" THEN Outcome(1, "", "", NoVars, NoOptions, validated)
             ELSE Outcome(IF validated.valid THEN 0 ELSE 1, "", "", NoVars, NoOptions, validated)

\* the words of a command line after the path of the configuration
CliTokens == {"c1", "-o", "--output", "out.env", "--validate", "--help"}

\* the records of the Components of the files the tools are run on
CliFields == << <<"port", JNum(4001)>>, <<"databaseUsageMode", JStr("BOGUS")>> >>

\* an AGENT with a port, one without, one with an unknown usage mode, and
\* two AGENTs of which the second is c1
CliComponents ==
    {<<ExtractComponent("c1", "AGENT", "absent", TRUE, OrderedRecord(CliFields, <<1>>), "")>>,
     <<ExtractComponent("c1", "AGENT", "absent", TRUE, OrderedRecord(CliFields, <<>>), "")>>,
     <<ExtractComponent("c1", "AGENT", "absent", TRUE, OrderedRecord(CliFields, <<1, 2>>), "")>>,
     <<ExtractComponent("c2", "AGENT", "absent", TRUE, OrderedRecord(CliFields, <<1>>), ""),
       ExtractComponent("c1", "AGENT", "absent", TRUE, OrderedRecord(CliFields, <<1>>), "")>>}

\* the file at the path: missing, not JSON, without systems, or one System
CliDocuments ==
    {FileState("absent"), FileState("malformed"), FileState("null"),
     ExtractDocument(Undefined, "", FALSE, <<>>)}
        \cup {ExtractDocument(JNum(3), "prod", TRUE, <<System("s1", "IAM", TRUE, comps)>>) :
                comps \in CliComponents}

\* a command line: nothing at all, or the path and up to MaxArgs - 1 words
InitCli ==
    /\ pc = "start"
    /\ deployment = NoRecord
    /\ normalized = NoRecord
    /\ result = NoResult
    /\ config \in CliDocuments
    /\ env \in {NoEnv, [NoEnv EXCEPT !.COMPONENT_ID = "c1"]}
    /\ \E n \in 0..(MaxArgs - 1) :
         \E rest \in [1..n -> CliTokens] :
            options \in {[args |-> <<>>], [args |-> <<"cfg">> \o rest]}

\* node dist/bin/extract-config.js args...
ExtractMain ==
    /\ pc = "start"
    /\ pc' = "extractor exited"
    /\ result' = extractMain(options.args, config, env)
    /\ UNCHANGED <<deployment, normalized, config, options, env>>

\* node dist/src/bin/validate-config.js args...
ValidateMain ==
    /\ pc = "start"
    /\ pc' = "validator exited"
    /\ result' = validateMain(options.args, config)
    /\ UNCHANGED <<deployment, normalized, config, options, env>>

NextCli == ExtractMain \/ ValidateMain

SpecCli == InitCli /\ [][NextCli]_vars

\* the Component the run of the extractor selected
CliSelected ==
    LET found == discoverComponent(config, result.call, env)
    IN  config.systems[found.si].components[found.ci]

\* the run was given a path and did not print the usage
Ran(tool) == pc = tool /\ result.stdout # "usage"

(***************************************************************************)
(* C25: a run of the validator exits with 1 exactly when the document is   *)
(* malformed or an issue of severity error is reported anywhere in it; a   *)
(* run of the extractor, validate-only or not, exits with 1 exactly when   *)
(* the document is malformed, discovery fails, or the selected Component   *)
(* has an issue of severity error (an AGENT without port, a usage mode     *)
(* outside LOCAL, SHARED, NONE); both exit with 0 otherwise.               *)
(***************************************************************************)
C25_ExitCodes ==
    /\ Ran("validator exited") =>
         (result.exit = 1 <=>
            \/ result.extracted.kind = "thrown"
            \/ HasErrors(result.extracted.issues))
    /\ Ran("extractor exited") =>
         (result.exit = 1 <=>
            \/ result.extracted.kind = "error"
            \/ HasErrors(FieldIssues(CliSelected, "deployment")))

\* the words after the path begin with a flag and hold no component id
FlagFirst(args) ==
    /\ Len(args) >= 2
    /\ args[2] \in {"-o", "--output", "--validate"}
    /\ ~Includes(args, "--help")

(***************************************************************************)
(* C30: when the path of the configuration is directly followed by -o,     *)
(* --output or --validate, the extractor discovers the Component as a run  *)
(* with the path alone does; and when -o or --output is followed by a      *)
(* path and the extraction succeeds, the variables are written to it.      *)
(***************************************************************************)
C30_FlagsAreNotSelectors ==
    (pc = "extractor exited" /\ FlagFirst(options.args)) =>
        /\ result.extracted = extractConfig(config, NoOptions, env)
        /\ (/\ options.args[2] \in {"-o", "--output"}
            /\ Len(options.args) >= 3
            /\ options.args[3] = "out.env"
            /\ ~Includes(options.args, "--validate")
            /\ result.extracted.kind = "ok") =>
                (result.exit = 0 /\ result.path = "out.env"
                    /\ result.written = result.extracted.envVars)

\* the hint a call resolves to, the explicit value before the two variables
Resolved(explicit, primary, alternate) ==
    IF explicit # "" THEN explicit ELSE IF primary # "" THEN primary ELSE alternate

\* the hints of the state, each resolved on its own, as explicit values
ResolvedHints ==
    [componentId |-> Resolved(options.componentId, env.COMPONENT_ID, env.TARGET_COMPONENT_ID),
     systemId |-> Resolved(options.systemId, env.SYSTEM_ID, env.TARGET_SYSTEM_ID)]

(***************************************************************************)
(* C26: discovery behaves as if it were called with the resolved hints as  *)
(* explicit values and an empty environment: the componentId hint is the   *)
(* explicit componentId, else COMPONENT_ID, else TARGET_COMPONENT_ID; the  *)
(* systemId hint is the explicit systemId, else SYSTEM_ID, else            *)
(* TARGET_SYSTEM_ID; a variable never overrides an explicit value.         *)
(***************************************************************************)
C26_ExplicitBeforeEnvironment ==
    pc = "discovered" => result = discoverComponent(config, ResolvedHints, NoEnv)

\* an explicit component id and a different COMPONENT_ID: the explicit one is found
C26_Witness ==
    /\ pc = "discovered"
    /\ options.componentId = "c2"
    /\ env.COMPONENT_ID = "c1"
    /\ result.kind = "ok"
    /\ ComponentAt(config.systems, <<result.si, result.ci>>).componentId = "c2"
    /\ discoverComponent(config, [NoOptions EXCEPT !.componentId = "c1"], NoEnv).kind = "ok"

\* an explicit system id and a different SYSTEM_ID, with a component id
C26_WitnessSystem ==
    /\ pc = "discovered"
    /\ options.systemId = "s2"
    /\ env.SYSTEM_ID = "s1"
    /\ ResolvedHints.componentId # ""
    /\ result.kind = "ok"
    /\ config.systems[result.si].systemId = "s2"
    /\ \E i \in DOMAIN config.systems : config.systems[i].systemId = "s1"

\* a systemId hint and no componentId hint
SystemHintAlone == ResolvedHints.systemId # "" /\ ResolvedHints.componentId = ""

(***************************************************************************)
(* C28: with a systemId hint and no componentId hint, discovery returns    *)
(* exactly what it returns with no hints at all: the System found may be   *)
(* another than the hinted one, and a systemId that names no System of the *)
(* document does not give SystemNotFound.                                  *)
(***************************************************************************)
C28_SystemHintAloneIgnored ==
    (pc = "discovered" /\ SystemHintAlone) =>
        /\ result = discoverComponent(config, NoOptions, NoEnv)
        /\ result.error # "SystemNotFound"

\* the hint names a System the document does not have, and a Component is found
C28_Witness ==
    /\ pc = "discovered"
    /\ SystemHintAlone
    /\ \A n \in DOMAIN config.systems : config.systems[n].systemId # ResolvedHints.systemId
    /\ result.kind = "ok"

\* the hint names the second System, the Component found is in the first
C28_WitnessOtherSystem ==
    /\ pc = "discovered"
    /\ SystemHintAlone
    /\ result.kind = "ok"
    /\ config.systems[result.si].systemId # ResolvedHints.systemId
    /\ \E n \in DOMAIN config.systems : config.systems[n].systemId = ResolvedHints.systemId

\* no selector hint, explicit or in the environment
NoHints == options = NoOptions /\ env = NoEnv

(***************************************************************************)
(* C27: whenever validate reports the document of a state as valid, the    *)
(* extraction of that document without hints succeeds; a document with an  *)
(* empty systems sequence, or with a first System without components, is   *)
(* not reported as valid.                                                  *)
(***************************************************************************)
C27_ValidMeansExtractable ==
    (pc = "extracted" /\ NoHints /\ validate(config).kind = "returned") =>
        /\ validate(config).valid => result.kind = "ok"
        /\ (config.kind = "object" /\ config.hasSystems
              /\ (Len(config.systems) = 0 \/ Len(config.systems[1].components) = 0))
                => ~validate(config).valid

(***************************************************************************)
(* C29: for every document and the same hints the compiled extractor and   *)
(* the source extractor both fail, or both return the same envVars and     *)
(* the same warnings.                                                      *)
(***************************************************************************)
C29_CompiledEqualsSource ==
    pc = "extracted by dist" =>
        LET source == extractConfig(config, options, env)
        IN  /\ result.kind = "error" <=> source.kind = "error"
            /\ result.kind = "ok" =>
                 (result.envVars = source.envVars /\ result.warnings = source.warnings)
====
